---- MODULE Spec2Model ----
(***************************************************************************)
(* SysSpector: a command-line collector of system information.             *)
(*                                                                         *)
(* The module models                                                       *)
(*   - the command-line entry point (cmd/sysinfo/main.go and the later     *)
(*     variant unnamed/part_007 with printSystemInfo and --json),          *)
(*   - the macOS aggregator darwin.GetSystemInfo with its dynamic and      *)
(*     network collectors (internal/darwin, and the network variant        *)
(*     unnamed/part_005),                                                  *)
(*   - the Windows collectors (internal/windows, unnamed/part_002),        *)
(*   - the report type pkg/model.SystemInfo and its JSON encoding,         *)
(*   - the plain-text renderers.                                           *)
(*                                                                         *)
(* Abstractions.  A Go string is a TLA+ string; a string holding bytes     *)
(* that are not valid UTF-8 is written with the marker <ff>.  A float64 is *)
(* a string naming its value ("0", "36.5", "+Inf").  A slice is a          *)
(* sequence (a nil slice and an empty slice are both the empty sequence).  *)
(* A struct is a record over the subset of its fields listed in Schema.    *)
(* The outcome of every external command or library call is chosen         *)
(* nondeterministically; a run takes at most MaxFaults outcomes other than *)
(* the nominal one.                                                        *)
(***************************************************************************)
EXTENDS Integers, Sequences, FiniteSets, TLC

\* Bound: the number of non-nominal outcomes (failed commands, malformed
\* command output) in one run.
MaxFaults == 2

(***************************************************************************)
(* pkg/model: the report type                                              *)
(***************************************************************************)
fStr(n) == [name |-> n, kind |-> "string", of |-> "", ek |-> ""]
fInt(n) == [name |-> n, kind |-> "int", of |-> "", ek |-> ""]
fFloat(n) == [name |-> n, kind |-> "float", of |-> "", ek |-> ""]
fBool(n) == [name |-> n, kind |-> "bool", of |-> "", ek |-> ""]
fStruct(n, T) == [name |-> n, kind |-> "struct", of |-> T, ek |-> ""]
fList(n, T) == [name |-> n, kind |-> "list", of |-> T, ek |-> "struct"]
fStrings(n) == [name |-> n, kind |-> "list", of |-> "", ek |-> "string"]

\* The exported fields of each struct, in declaration order (a subset of the
\* fields of pkg/model/system.go; no field carries a json tag).
Schema ==
  [ SystemInfo |-> << fStr("Hostname"), fStr("OS"), fStr("Model"), fStr("ModelID"),
                      fStr("SerialNumber"), fStr("UUID"),
                      fStruct("CPU", "CPUInfo"), fStruct("Memory", "MemoryInfo"),
                      fList("Disks", "Disk"),
                      fList("DiskUsage", "DiskPartitionInfo"),
                      fStruct("MemoryUsage", "MemoryUsageInfo"),
                      fStruct("Battery", "BatteryInfo"),
                      fStruct("ACAdapter", "ACAdapterInfo"),
                      fStruct("Bluetooth", "BluetoothInfo"),
                      fList("Temperature", "TempSensorInfo"),
                      fStruct("WiFiAutoJoin", "WiFiAutoJoinInfo"),
                      fStruct("Network", "NetworkInfo"),
                      fStr("SystemVersion"), fStr("ComputerName"), fStr("UpTime"),
                      fList("InstalledApps", "AppInfo"),
                      fList("RunningApps", "ProcessInfo") >>,
    CPUInfo |-> << fStr("Model"), fInt("Cores") >>,
    MemoryInfo |-> << fInt("Total"), fStr("Type") >>,
    Disk |-> << fStr("Name"), fStr("Model"), fInt("Size"), fStr("Serial") >>,
    DiskPartitionInfo |-> << fStr("MountPoint"), fStr("Filesystem"), fInt("Total"),
                             fInt("Used"), fFloat("UsedPerc") >>,
    MemoryUsageInfo |-> << fInt("Total"), fInt("Used"), fFloat("UsedPerc") >>,
    BatteryInfo |-> << fInt("Percentage"), fBool("IsCharging"), fBool("IsPresent"),
                       fInt("CycleCount"), fStr("Health"), fStr("Status"),
                       fInt("TimeRemaining") >>,
    ACAdapterInfo |-> << fBool("Connected"), fBool("IsConnected"), fStr("SerialNum"),
                         fStr("Name"), fInt("Wattage") >>,
    BluetoothInfo |-> << fBool("Enabled"), fBool("IsAvailable"), fStr("Status"),
                         fList("Devices", "BTDeviceInfo"),
                         fList("ConnectedDevices", "BTDeviceInfo") >>,
    BTDeviceInfo |-> << fStr("Name"), fStr("Type"), fBool("Connected") >>,
    TempSensorInfo |-> << fStr("Name"), fFloat("Temperature"), fFloat("Value") >>,
    WiFiAutoJoinInfo |-> << fBool("IsConfigured"), fStr("Status"),
                            fList("Networks", "WiFiNetworkInfo") >>,
    WiFiNetworkInfo |-> << fStr("SSID"), fBool("AutoJoin") >>,
    NetworkInfo |-> << fStruct("WiFi", "WiFiInfo"), fStr("IP"), fStr("MacAddress"),
                       fStr("AWDLStatus"), fBool("AWDLEnabled"),
                       fList("Interfaces", "NetInterfaceInfo"),
                       fStruct("Latency", "LatencyInfo"), fStruct("VPN", "VPNInfo"),
                       fStruct("DNS", "DNSConfigInfo"), fStrings("DNSServers"),
                       fStr("PublicIP"), fBool("ProxyStatus"),
                       fStruct("ProxyInfo", "ProxyInfo"), fFloat("AvgLatency"),
                       fList("RouteTable", "RouteEntry"),
                       fStr("NetworkTraffic"), fStr("ProcessTraffic") >>,
    WiFiInfo |-> << fStr("SSID"), fStr("BSSID"), fStr("CountryCode"), fInt("RSSI"),
                    fInt("Noise"), fStr("PHYMode"), fInt("Channel"), fInt("TxRate"),
                    fInt("MCS"), fInt("NSS"), fStr("SupportedPHY"),
                    fBool("IsConnected"), fInt("SignalStrength"),
                    fFloat("Frequency") >>,
    NetInterfaceInfo |-> << fStr("Name"), fStr("IP"), fStr("MacAddress"),
                            fStr("MACAddress"), fBool("IsUp"), fInt("InBytes"),
                            fInt("OutBytes") >>,
    LatencyInfo |-> << fFloat("AvgLatency"), fList("Targets", "TargetLatencyInfo") >>,
    TargetLatencyInfo |-> << fStr("TargetHost"), fFloat("MinLatency"),
                             fFloat("AvgLatency") >>,
    VPNInfo |-> << fBool("IsConnected"), fStr("NodeName"), fStrings("Services") >>,
    DNSConfigInfo |-> << fStrings("Servers"), fList("HostEntries", "HostEntry") >>,
    HostEntry |-> << fStr("IP"), fStr("Hostname") >>,
    RouteEntry |-> << fStr("Destination"), fStr("Gateway") >>,
    ProxyInfo |-> << fBool("Enabled"), fStr("Server"), fInt("Port") >>,
    AppInfo |-> << fStr("Name"), fStr("Version") >>,
    ProcessInfo |-> << fInt("PID"), fStr("Name"), fInt("Memory") >> ]

FieldNames(T) == { Schema[T][i].name : i \in 1..Len(Schema[T]) }
Field(T, n) == Schema[T][CHOOSE i \in 1..Len(Schema[T]) : Schema[T][i].name = n]

\* The Go zero value of struct type T.
RECURSIVE Zero(_)
Zero(T) ==
  [ n \in FieldNames(T) |->
      LET f == Field(T, n) IN
      CASE f.kind = "string" -> ""
        [] f.kind = "int" -> 0
        [] f.kind = "float" -> "0"
        [] f.kind = "bool" -> FALSE
        [] f.kind = "struct" -> Zero(f.of)
        [] OTHER -> << >> ]

ZeroInfo == Zero("SystemInfo")
ZeroNetwork == Zero("NetworkInfo")

\* float64 values that JSON cannot carry.
IsFinite(f) == f \notin {"+Inf", "-Inf", "NaN"}

(***************************************************************************)
(* encoding/json as json.MarshalIndent(info, "", "  ") uses it, and the    *)
(* decoding of its output back into a model.SystemInfo                     *)
(***************************************************************************)
\* Strings holding bytes that are not valid UTF-8.
InvalidUTF8 == {"host<ff>", "ssid<ff>"}

\* The encoder writes every invalid byte of a string as U+FFFD.
CoerceUTF8(s) ==
  CASE s = "host<ff>" -> "host<fffd>"
    [] s = "ssid<ff>" -> "ssid<fffd>"
    [] OTHER -> s

\* The number literal of a finite float64 (shortest text that reads back
\* as the same value), and the value such a literal reads back as.
FormatFloat(f) == f
ParseNumber(lit) == lit

ElemDesc(f) == [name |-> f.name, kind |-> f.ek, of |-> f.of, ek |-> ""]

\* A value the encoder rejects with UnsupportedValueError: a float64 that is
\* NaN or infinite, anywhere in the struct.
RECURSIVE UnsupportedValue(_, _)
UnsupportedValue(T, v) ==
  \E i \in 1..Len(Schema[T]) :
    LET f == Schema[T][i]
        x == v[f.name]
    IN CASE f.kind = "float" -> ~IsFinite(x)
         [] f.kind = "struct" -> UnsupportedValue(f.of, x)
         [] f.kind = "list" /\ f.ek = "struct" ->
              \E k \in 1..Len(x) : UnsupportedValue(f.of, x[k])
         [] OTHER -> FALSE

\* The JSON value of a Go value: an object is the sequence of its members
\* in field order, each keyed by the Go field name.
RECURSIVE MarshalValue(_, _)
MarshalValue(f, x) ==
  CASE f.kind = "string" -> [t |-> "string", s |-> CoerceUTF8(x)]
    [] f.kind = "int" -> [t |-> "number", n |-> x]
    [] f.kind = "float" -> [t |-> "number", lit |-> FormatFloat(x)]
    [] f.kind = "bool" -> [t |-> IF x THEN "true" ELSE "false"]
    [] f.kind = "struct" ->
         [t |-> "object",
          members |-> [i \in 1..Len(Schema[f.of]) |->
                         [key |-> Schema[f.of][i].name,
                          val |-> MarshalValue(Schema[f.of][i], x[Schema[f.of][i].name])]]]
    [] OTHER ->
         [t |-> "array",
          items |-> [k \in 1..Len(x) |-> MarshalValue(ElemDesc(f), x[k])]]

\* json.MarshalIndent(info, "", "  "): an error, or the document.
MarshalIndent(v) ==
  IF UnsupportedValue("SystemInfo", v)
  THEN [err |-> TRUE, doc |-> [t |-> "none"]]
  ELSE [err |-> FALSE, doc |-> MarshalValue(fStruct("", "SystemInfo"), v)]

\* Case folding of a key, as the decoder's fallback match uses it.
foldName(k) ==
  CASE k = "MacAddress" -> "macaddress"
    [] k = "MACAddress" -> "macaddress"
    [] OTHER -> k

FirstOf(S) == CHOOSE i \in S : \A j \in S : i <= j

\* The field an object key is stored into under case-insensitive matching alone.
FoldMatchOnly(T, key) ==
  LET fold == { i \in 1..Len(Schema[T]) : foldName(Schema[T][i].name) = foldName(key) }
  IN IF fold # {} THEN FirstOf(fold) ELSE 0

\* The field an object key is stored into: the field of exactly that name,
\* else the first field whose name matches it case-insensitively, else none.
FindField(T, key) ==
  LET exact == { i \in 1..Len(Schema[T]) : Schema[T][i].name = key }
      fold == { i \in 1..Len(Schema[T]) : foldName(Schema[T][i].name) = foldName(key) }
  IN IF exact # {} THEN FirstOf(exact)
     ELSE IF fold # {} THEN FirstOf(fold) ELSE 0

RECURSIVE UnmarshalValue(_, _)
UnmarshalValue(f, j) ==
  CASE f.kind = "string" -> j.s
    [] f.kind = "int" -> j.n
    [] f.kind = "float" -> ParseNumber(j.lit)
    [] f.kind = "bool" -> (j.t = "true")
    [] f.kind = "struct" ->
         LET RECURSIVE store(_, _)
             store(acc, k) ==
               IF k > Len(j.members) THEN acc
               ELSE LET m == j.members[k]
                        i == FindField(f.of, m.key)
                    IN store(IF i = 0 THEN acc
                             ELSE [acc EXCEPT ![Schema[f.of][i].name] =
                                                UnmarshalValue(Schema[f.of][i], m.val)],
                             k + 1)
         IN store(Zero(f.of), 1)
    [] OTHER -> [k \in 1..Len(j.items) |-> UnmarshalValue(ElemDesc(f), j.items[k])]

\* json.Unmarshal(doc, &report) into a zero report.
Unmarshal(doc) == UnmarshalValue(fStruct("", "SystemInfo"), doc)

\* A string of the struct holds invalid UTF-8.
RECURSIVE HasInvalidUTF8(_, _)
HasInvalidUTF8(T, v) ==
  \E i \in 1..Len(Schema[T]) :
    LET f == Schema[T][i]
        x == v[f.name]
    IN CASE f.kind = "string" -> x \in InvalidUTF8
         [] f.kind = "struct" -> HasInvalidUTF8(f.of, x)
         [] f.kind = "list" /\ f.ek = "struct" ->
              \E k \in 1..Len(x) : HasInvalidUTF8(f.of, x[k])
         [] f.kind = "list" /\ f.ek = "string" ->
              \E k \in 1..Len(x) : x[k] \in InvalidUTF8
         [] OTHER -> FALSE

(***************************************************************************)
(* State                                                                   *)
(***************************************************************************)
VARIABLES
  goos,         \* runtime.GOOS
  build,        \* the entry point built: "main.go" or "part_007"
  args,         \* os.Args[1:]
  writable,     \* whether os.WriteFile on the output path succeeds
  entry,        \* the function a run starts in
  pc,           \* the statement the run is at
  info,         \* the report being collected / rendered
  networkInfo,  \* the local networkInfo of GetNetworkInfo
  dynamicInfo,  \* the local info of windows.GetDynamicInfo
  failed,       \* the sub-collectors whose commands failed in this run
  calls,        \* the sub-collections invoked so far, in order
  phases,       \* the collectors that have run on the report, in order
  faults,       \* the number of non-nominal outcomes so far
  logs,         \* the messages written with log.Printf / log.Fatalf
  stdout,       \* the sections printed, in order
  file,         \* the output file
  exitCode,     \* the process exit status
  err,          \* err of the caller: whether the last error assigned is non-nil
  jsonOutput,   \* the result of json.MarshalIndent
  decoded,      \* the report decoded from jsonOutput
  rendering,    \* the result of a text renderer
  input,        \* what a probe called on its own reads from the system
  ret           \* what that probe returned

env == <<goos, build, args, writable, entry>>
collected == <<info, networkInfo, dynamicInfo>>
ghost == <<failed, calls, faults>>
out == <<stdout, file, exitCode, err>>
aux == <<jsonOutput, decoded, rendering, input, ret>>
vars == <<env, pc, collected, ghost, phases, logs, out, aux>>

NoFile == [written |-> FALSE, name |-> "", format |-> "", body |-> << >>]
NoJSON == [err |-> FALSE, doc |-> [t |-> "none"]]
NoRendering == [lines |-> << >>, panic |-> FALSE, fatal |-> FALSE]

\* The state of a process before main runs.
Fresh ==
  /\ networkInfo = ZeroNetwork /\ dynamicInfo = ZeroInfo
  /\ failed = {} /\ calls = << >> /\ phases = << >> /\ faults = 0
  /\ logs = {} /\ stdout = << >> /\ file = NoFile /\ exitCode = 0 /\ err = FALSE
  /\ jsonOutput = NoJSON /\ decoded = ZeroInfo /\ rendering = NoRendering
  /\ ret = << >>

(***************************************************************************)
(* Sample values that collectors read from the system                      *)
(***************************************************************************)
SampleDisk == [Name |-> "disk0", Model |-> "APPLE SSD AP0512", Size |-> 494, Serial |-> "S1"]
SamplePartition ==
  [MountPoint |-> "/", Filesystem |-> "apfs", Total |-> 500, Used |-> 200, UsedPerc |-> "40"]
SampleSensor == [Name |-> "CPU", Temperature |-> "36.5", Value |-> "36.5"]
OverflowSensor == [Name |-> "CPU", Temperature |-> "+Inf", Value |-> "+Inf"]
SampleBattery ==
  [Percentage |-> 80, IsCharging |-> FALSE, IsPresent |-> TRUE, CycleCount |-> 120,
   Health |-> "Normal", Status |-> "", TimeRemaining |-> 185]
SampleInterface ==
  [Name |-> "en0", IP |-> "192.168.1.10", MacAddress |-> "", MACAddress |-> "a4:83:e7:00:00:01",
   IsUp |-> TRUE, InBytes |-> 0, OutBytes |-> 0]
SecondInterface ==
  [Name |-> "en1", IP |-> "10.0.0.2", MacAddress |-> "a4:83:e7:00:00:02",
   MACAddress |-> "a4:83:e7:00:00:02", IsUp |-> TRUE, InBytes |-> 7, OutBytes |-> 9]
SampleDevice == [Name |-> "Magic Keyboard", Type |-> "keyboard", Connected |-> TRUE]
SampleApp == [Name |-> "Safari", Version |-> "17.4"]
SampleProcess == [PID |-> 1, Name |-> "launchd", Memory |-> 4096]

(***************************************************************************)
(* Library functions, on the strings and lists of the model                *)
(***************************************************************************)
\* strings.Contains(s, sub)
Contains(s, sub) ==
  \/ s = sub
  \/ <<s, sub>> \in { <<"--json=pretty", "--json">>,
                      <<"Mac14,9", "Mac">>, <<"Mac14,9", "14,">>,
                      <<"Apple M3 Pro", "Apple">>, <<"Apple M3 Pro", "M3">>,
                      <<"Apple M3 Pro", "Pro">>, <<"Apple M3", "Apple">>,
                      <<"Apple M3", "M3">>, <<"Apple M1", "Apple">>,
                      <<"Apple Silicon", "Apple">>,
                      <<"intel(r) core(tm) i7", "intel">>, <<"intel cpu", "intel">>,
                      <<"802.11ac", "802.11a">>, <<"802.11ax", "802.11a">>,
                      <<"ThinkPad X1 Carbon Gen 9", "ThinkPad X1 Carbon">>,
                      <<"Office VPN", "VPN">>, <<"utun3: flags", "utun">>,
                      <<"openvpn --daemon", "openvpn">>,
                      <<"openvpn --config /etc/o.conf", "openvpn">> }

\* strings.ToLower(s)
ToLower(s) ==
  CASE s = "Intel(R) Core(TM) i7" -> "intel(r) core(tm) i7"
    [] s = "Intel CPU" -> "intel cpu"
    [] s = "Apple M3 Pro" -> "apple m3 pro"
    [] s = "Apple M3" -> "apple m3"
    [] s = "Apple M1" -> "apple m1"
    [] s = "Apple Silicon" -> "apple silicon"
    [] s = "Unknown CPU" -> "unknown cpu"
    [] OTHER -> s

\* A run of decimal digits too long for a float64 (more than 309 digits
\* before the point); it matches \d+\.\d+ like any other number.
HugeNumber == "999...9.9"

\* strconv.ParseFloat(s, 64): the value and whether an error is returned.  A
\* number out of range yields an infinity together with ErrRange.
ParseFloat(s) ==
  CASE s = "36.5" -> [f |-> "36.5", err |-> FALSE]
    [] s = "12.3" -> [f |-> "12.3", err |-> FALSE]
    [] s = "5" -> [f |-> "5", err |-> FALSE]
    [] s = HugeNumber -> [f |-> "+Inf", err |-> TRUE]
    [] OTHER -> [f |-> "0", err |-> TRUE]

\* s[i] of a Go slice is defined for 0 <= i < len(s) and panics otherwise.
InRange(s, i) == i >= 0 /\ i < Len(s)
Elem(s, i) == s[i + 1]

(***************************************************************************)
(* cmd/sysinfo: formatSystemInfo                                           *)
(***************************************************************************)
Line(label, a, b, n) == [label |-> label, a |-> a, b |-> b, n |-> n]

\* A disk line without its guard.
unguardedDisks(i) == TRUE

\* The guard of the disk line: len(info.Disks) > 0.
hasDisks(i) == Len(i.Disks) > 0

\* formatSystemInfo(info): the lines written, and whether an index
\* expression panicked.  `b` is the entry point built (main.go or part_007),
\* whose copies differ in line 3 and in the processor line.
formatSystemInfo(i, os, b) ==
  LET osType == IF os = "windows" THEN "Windows" ELSE "Mac"
      line2 == IF i.Model # "" THEN <<Line("2", i.Model, "", 0)>> ELSE << >>
      line3 == IF b = "main.go"
               THEN IF i.Model # "" THEN Line("3", i.Model, "", 0)
                    ELSE Line("", "", "", 0)
               ELSE IF i.ModelID # "" THEN Line("3", i.ModelID, "", 0)
                    ELSE IF i.Model # "" THEN Line("3", i.Model, "", 0)
                    ELSE Line("3", "unknown", "", 0)
      cpuDesc == IF i.CPU.Cores > 0
                 THEN IF Contains(ToLower(i.CPU.Model), "intel")
                      THEN Line("5", "cores-model", i.CPU.Model, i.CPU.Cores)
                      ELSE IF b = "main.go"
                      THEN Line("5", "model cores", i.CPU.Model, i.CPU.Cores)
                      ELSE Line("5", "model (cores)", i.CPU.Model, i.CPU.Cores)
                 ELSE Line("5", "model", i.CPU.Model, 0)
      diskPanic == hasDisks(i) /\ ~InRange(i.Disks, 0)
      diskLine == IF hasDisks(i) /\ InRange(i.Disks, 0)
                  THEN LET disk == Elem(i.Disks, 0)
                       IN Line("7", IF disk.Model = "" THEN disk.Name ELSE disk.Model, "", 0)
                  ELSE Line("7", "unknown", "", 0)
  IN [ lines |-> <<Line("static-info", "", "", 0), Line("1", i.Hostname, osType, 0)>>
                   \o line2
                   \o <<line3, Line("4", i.SerialNumber, "", 0), cpuDesc,
                        Line("6", i.UUID, "", 0)>>
                   \o (IF diskPanic THEN << >>
                       ELSE <<diskLine, Line("8", i.CPU.Model, "", 0)>>),
       panic |-> diskPanic,
       fatal |-> FALSE ]

(***************************************************************************)
(* cmd/sysinfo: main                                                       *)
(***************************************************************************)
\* Outcomes of an external call in a step of a run.
Ok == faults' = faults /\ failed' = failed
Failed(c) == faults < MaxFaults /\ faults' = faults + 1 /\ failed' = failed \cup {c}
Odd == faults < MaxFaults /\ faults' = faults + 1 /\ failed' = failed
Log(m) == logs' = logs \cup {m}

ArgLists ==
  { << >>, <<"--save">>, <<"--save", "out.json">>, <<"--json">>, <<"--json=pretty">>,
    <<"--json", "--save">>, <<"--save", "--json">> }

Init ==
  /\ goos \in {"windows", "darwin", "linux"}
  /\ build \in {"main.go", "part_007"}
  /\ args \in ArgLists
     \* the outcome of the write matters only to a run that saves
  /\ writable \in (IF Len(args) > 0 /\ args[1] = "--save" THEN BOOLEAN ELSE {TRUE})
  /\ entry = "main"
  /\ pc = "main"
  /\ info = ZeroInfo
  /\ Fresh /\ input = << >>

\* main: switch runtime.GOOS (main.go 22-40, part_007 26-46).
main_switch ==
  /\ pc = "main"
  /\ IF goos = "windows"
     THEN /\ pc' = "win_hostInfo"
          /\ logs' = logs \cup {"Starting system information collection...",
                               "Detected Windows OS"}
          /\ exitCode' = exitCode
     ELSE IF goos = "darwin"
     THEN /\ pc' = "hostInfo"
          /\ logs' = logs \cup {"Starting system information collection...",
                               "Detected macOS"}
          /\ exitCode' = exitCode
     ELSE /\ pc' = "exited"
          /\ logs' = logs \cup {"Starting system information collection...",
                               "Unsupported operating system"}
          /\ exitCode' = 1
  /\ UNCHANGED <<env, collected, ghost, phases, stdout, file, err, aux>>

\* A collector that reports a failed sub-collection as its own error.
returnsError == TRUE

\* The error darwin.GetSystemInfo returns: `return info, nil`.
darwin_GetSystemInfo_err == FALSE
\* The error windows.GetSystemInfo returns: `return info, nil`.
windows_GetSystemInfo_err == FALSE

\* main: the check of the collector's error (main.go 27-29 and 34-36,
\* part_007 31-35 and 40-42).
main_checkErr ==
  /\ pc = "collected"
  /\ IF ~err
        THEN /\ pc' = "print"
             /\ UNCHANGED <<logs, stdout, exitCode>>
        ELSE IF goos = "windows" /\ build = "part_007"
        THEN /\ pc' = "print"
             /\ Log("Error collecting Windows system information")
             /\ stdout' = Append(stdout, "Some system information could not be collected")
             /\ exitCode' = exitCode
        ELSE /\ pc' = "exited"
             /\ Log("Error collecting system information")
             /\ exitCode' = 1
             /\ stdout' = stdout
  /\ UNCHANGED <<env, collected, ghost, phases, file, err, aux>>

\* The sections printSystemInfo of part_007 prints before the JSON block.
TextSections == <<"hardware-basic", "hardware-dynamic", "network-client">>

\* os.Args[1] exists and contains "--json" (part_007 377).
wantsJSON == Len(args) > 0 /\ Contains(args[1], "--json")

\* main.go 43: printFormattedInfo(sysInfo); part_007 49: printSystemInfo(sysInfo),
\* which ends with the JSON block (part_007 377-385).
printSystemInfo ==
  /\ pc = "print"
  /\ IF build = "main.go"
     THEN /\ stdout' = Append(stdout, "formatted")
          /\ rendering' = formatSystemInfo(info, goos, build)
          /\ pc' = "save"
          /\ UNCHANGED <<logs, exitCode, jsonOutput>>
     ELSE /\ rendering' = rendering
          /\ IF wantsJSON
             THEN /\ jsonOutput' = MarshalIndent(info)
                  /\ IF jsonOutput'.err
                     THEN /\ stdout' = stdout \o TextSections
                          /\ Log("Error marshaling to JSON")
                          /\ exitCode' = 1
                          /\ pc' = "exited"
                     ELSE /\ stdout' = stdout \o TextSections \o <<"JSON">>
                          /\ pc' = "save"
                          /\ UNCHANGED <<logs, exitCode>>
             ELSE /\ stdout' = stdout \o TextSections
                  /\ pc' = "save"
                  /\ UNCHANGED <<logs, exitCode, jsonOutput>>
  /\ UNCHANGED <<env, collected, ghost, phases, file, err, decoded, input, ret>>

\* A --save looked for in every argument.
savesAnywhere == \E k \in DOMAIN args : args[k] = "--save"

\* os.Args[1] == "--save" (main.go 46, part_007 52).
wantsSave == Len(args) > 0 /\ args[1] = "--save"

\* A write that succeeds whatever the path.
writeNeverFails == FALSE

\* The error of os.WriteFile(outputFile, ...) (main.go 57-58, part_007 63-64).
WriteFile_err == ~writable

\* A save that formats a fresh, empty report.
emptyReport == ZeroInfo

\* The argument of formatSystemInfo(sysInfo) in the --save block (main.go 54,
\* part_007 60): the report main collected.
savedReport == info

\* main.go 46-62, part_007 52-68: the --save block.
main_save ==
  /\ pc = "save"
  /\ IF wantsSave
     THEN LET outputFile == IF Len(args) > 1 THEN args[2] ELSE "sysinfo.txt"
              output == formatSystemInfo(savedReport, goos, build)
          IN /\ err' = WriteFile_err
             /\ IF ~WriteFile_err
                THEN /\ file' = [written |-> TRUE, name |-> outputFile,
                                 format |-> "text", body |-> output.lines]
                     /\ Log("System information saved")
                     /\ pc' = "return"
                     /\ exitCode' = exitCode
                ELSE /\ Log("Error writing to file")
                     /\ exitCode' = 1
                     /\ pc' = "exited"
                     /\ file' = file
     ELSE /\ pc' = "return"
          /\ UNCHANGED <<file, logs, exitCode, err>>
  /\ UNCHANGED <<env, collected, ghost, phases, stdout, aux>>

\* The end of main (main.go 63, part_007 70-76): part_007 prints the prompt on
\* Windows and blocks in reader.ReadString; main.go returns at once.
main_return ==
  /\ pc = "return"
  /\ IF build = "part_007" /\ goos = "windows"
     THEN /\ stdout' = Append(stdout, "Press Enter to exit...")
          /\ pc' = "wait"
          /\ exitCode' = exitCode
     ELSE /\ stdout' = stdout
          /\ pc' = "exited"
          /\ exitCode' = 0
  /\ UNCHANGED <<env, collected, ghost, phases, logs, file, err, aux>>

\* reader.ReadString('\n') returns, with a line or at the end of the input,
\* and main returns (part_007 74-76).
main_readLine ==
  /\ pc = "wait" /\ pc' = "exited"
  /\ exitCode' = 0
  /\ UNCHANGED <<env, collected, ghost, phases, logs, stdout, file, err, aux>>

(***************************************************************************)
(* internal/darwin: GetSystemInfo, the static part                         *)
(***************************************************************************)
others == <<env, networkInfo, dynamicInfo, out, aux>>

\* host.Info() (command.go 25-31).
darwin_hostInfo ==
  /\ pc = "hostInfo" /\ pc' = "hwModel"
  /\ phases' = Append(phases, "static")
  /\ \/ Ok /\ info' = [info EXCEPT !.Hostname = "mbp.local", !.OS = "darwin 14.4"]
        /\ logs' = logs
     \/ Failed("host.Info") /\ info' = info /\ Log("Error getting host info")
  /\ UNCHANGED <<others, calls>>

\* sysctl -n hw.model (command.go 34-39).
darwin_hwModel ==
  /\ pc = "hwModel" /\ pc' = "marketingName"
  /\ \/ Ok /\ info' = [info EXCEPT !.Model = "Mac14,9"] /\ logs' = logs
     \/ Failed("hw.model") /\ info' = info /\ Log("Error getting model")
  /\ UNCHANGED <<others, calls, phases>>

\* system_profiler SPHardwareDataType (command.go 42-54).
darwin_marketingName ==
  /\ pc = "marketingName" /\ pc' = "serialNumber"
  /\ \/ Ok /\ info' = [info EXCEPT !.ModelID = info.Model, !.Model = "MacBook Pro"]
        /\ logs' = logs
     \/ Failed("SPHardwareDataType") /\ info' = info
        /\ Log("Error getting marketing model name")
  /\ UNCHANGED <<others, calls, phases>>

\* ioreg -c IOPlatformExpertDevice -d 2 (command.go 57-67).
darwin_serialNumber ==
  /\ pc = "serialNumber" /\ pc' = "cpu"
  /\ \/ Ok /\ info' = [info EXCEPT !.SerialNumber = "C02XK0AAJGH5"] /\ logs' = logs
     \/ Odd /\ info' = info /\ logs' = logs      \* no IOPlatformSerialNumber line
     \/ Failed("serial number") /\ info' = info /\ Log("Error getting serial number")
  /\ UNCHANGED <<others, calls, phases>>

\* The processor name inferred from the model identifier (command.go 107-117).
inferAppleModel(modelID) ==
  IF Contains(modelID, "Mac")
  THEN IF Contains(modelID, "14,") \/ Contains(modelID, "15,") THEN "Apple M3"
       ELSE IF Contains(modelID, "13,") THEN "Apple M2"
       ELSE "Apple M1"
  ELSE "Apple Silicon"

\* The Pro/Max/Ultra suffix (command.go 123-135 and 195-207).
withSuffix(cpuModel, modelID) ==
  IF Contains(modelID, "Pro") /\ ~Contains(cpuModel, "Pro") THEN cpuModel \o " Pro"
  ELSE IF Contains(modelID, "Max") /\ ~Contains(cpuModel, "Max") THEN cpuModel \o " Max"
  ELSE IF Contains(modelID, "Ultra") /\ ~Contains(cpuModel, "Ultra")
  THEN cpuModel \o " Ultra"
  ELSE cpuModel

\* The fallback of the processor step when ghw.CPU() fails (command.go 72-150):
\* coresOk, archOk, perfOk, brandOk tell which sysctl calls succeed.
cpuFallback(modelID, coresOk, archOk, perfOk, brandOk) ==
  LET cores == IF coresOk THEN 12 ELSE 0
      isAppleSilicon == IF archOk THEN TRUE ELSE perfOk
      cpuModel == IF isAppleSilicon
                  THEN withSuffix(IF brandOk THEN "Apple M3 Pro"
                                  ELSE inferAppleModel(modelID), modelID)
                  ELSE IF brandOk THEN "Intel(R) Core(TM) i7" ELSE "Intel CPU"
      msgs == {"Error getting CPU info with ghw"}
              \cup (IF coresOk THEN {} ELSE {"Error getting CPU core count"})
              \cup (IF ~isAppleSilicon /\ ~brandOk THEN {"Error getting CPU model"} ELSE {})
  IN [cpu |-> [Model |-> cpuModel, Cores |-> cores], msgs |-> msgs]

\* ghw.CPU() and its fallback (command.go 70-215).
darwin_cpu ==
  /\ pc = "cpu" /\ pc' = "memory"
  /\ \/ /\ Ok
        /\ info' = [info EXCEPT !.CPU = [Model |-> withSuffix("Apple M3 Pro", info.ModelID),
                                         Cores |-> 12]]
        /\ logs' = logs
     \/ \E brandOk \in BOOLEAN :
          LET r == cpuFallback(info.ModelID, TRUE, TRUE, TRUE, brandOk)
          IN Odd /\ info' = [info EXCEPT !.CPU = r.cpu] /\ logs' = logs \cup r.msgs
     \/ LET r == cpuFallback(info.ModelID, FALSE, FALSE, FALSE, FALSE)
        IN Failed("cpu") /\ info' = [info EXCEPT !.CPU = r.cpu] /\ logs' = logs \cup r.msgs
  /\ UNCHANGED <<others, calls, phases>>

\* mem.VirtualMemory() and system_profiler SPMemoryDataType (command.go 218-242).
darwin_memory ==
  /\ pc = "memory" /\ pc' = "disks"
  /\ \/ Ok /\ info' = [info EXCEPT !.Memory = [Total |-> 16, Type |-> "LPDDR5"]]
        /\ logs' = logs
     \/ Failed("memory type")
        /\ info' = [info EXCEPT !.Memory = [Total |-> 16, Type |-> "Unknown"]]
        /\ Log("Error getting memory type")
     \/ Failed("memory") /\ info' = info /\ Log("Error getting memory info")
  /\ UNCHANGED <<others, calls, phases>>

\* ghw.Block() and its fallback system_profiler SPStorageDataType
\* (command.go 245-296).
darwin_disks ==
  /\ pc = "disks" /\ pc' = "uuid"
  /\ \/ Ok /\ info' = [info EXCEPT !.Disks = Append(@, SampleDisk)] /\ logs' = logs
     \/ /\ Odd
        /\ info' = [info EXCEPT !.Disks = Append(@,
                      [Name |-> "disk0", Model |-> "APPLE SSD AP0512", Size |-> 494,
                       Serial |-> ""])]
        /\ Log("Error getting block info with ghw")
     \/ /\ Failed("disks") /\ info' = info
        /\ logs' = logs \cup {"Error getting block info with ghw", "Error getting disk info"}
  /\ UNCHANGED <<others, calls, phases>>

\* ioreg -d2 -c IOPlatformExpertDevice (command.go 299-309).
darwin_uuid ==
  /\ pc = "uuid" /\ pc' = "getDiskUsage"
  /\ \/ Ok /\ info' = [info EXCEPT !.UUID = "564D1A2B"] /\ logs' = logs
     \/ Failed("uuid") /\ info' = info /\ Log("Error getting UUID")
  /\ UNCHANGED <<others, calls, phases>>

(***************************************************************************)
(* internal/darwin: GetDynamicSystemInfo                                   *)
(***************************************************************************)
Call(fn, e) == calls' = Append(calls, [fn |-> fn, err |-> e])

\* One sub-collection of GetDynamicSystemInfo that either fills its field or
\* returns the error of its first command: `err = f(info); if err != nil
\* { log.Printf(...) }` (dynamic_info.go 428-468).
darwin_step(at, next, fn, field, value, msg) ==
  /\ pc = at /\ pc' = next
  /\ \/ Ok /\ Call(fn, FALSE) /\ info' = [info EXCEPT ![field] = value] /\ logs' = logs
     \/ Failed(fn) /\ Call(fn, TRUE) /\ info' = info /\ Log(msg)
  /\ UNCHANGED others

\* getDiskUsage (dynamic_info.go 474-495).
darwin_getDiskUsage ==
  /\ darwin_step("getDiskUsage", "getMemoryUsage", "getDiskUsage", "DiskUsage",
                 <<SamplePartition>>, "Error getting disk usage")
  /\ phases' = Append(phases, "dynamic")

\* getMemoryUsage (dynamic_info.go 498-513).
darwin_getMemoryUsage ==
  /\ darwin_step("getMemoryUsage", "getBatteryInfo", "getMemoryUsage", "MemoryUsage",
                 [Total |-> 16, Used |-> 8, UsedPerc |-> "50"],
                 "Error getting memory usage")
  /\ UNCHANGED phases

\* getBatteryInfo (dynamic_info.go 516-583).
darwin_getBatteryInfo ==
  /\ darwin_step("getBatteryInfo", "getACAdapterInfo", "getBatteryInfo", "Battery",
                 SampleBattery, "Error getting battery info")
  /\ UNCHANGED phases

\* getACAdapterInfo (dynamic_info.go 586-658).
darwin_getACAdapterInfo ==
  /\ darwin_step("getACAdapterInfo", "getBluetoothInfo", "getACAdapterInfo", "ACAdapter",
                 [Connected |-> TRUE, IsConnected |-> TRUE, SerialNum |-> "C4H",
                  Name |-> "96W USB-C Power Adapter", Wattage |-> 96],
                 "Error getting AC adapter info")
  /\ UNCHANGED phases

\* getBluetoothInfo (dynamic_info.go 661-747).
darwin_getBluetoothInfo ==
  /\ darwin_step("getBluetoothInfo", "getTemperatureInfo", "getBluetoothInfo", "Bluetooth",
                 [Zero("BluetoothInfo") EXCEPT !.Enabled = TRUE, !.Status = "on",
                                               !.Devices = <<SampleDevice>>],
                 "Error getting bluetooth info")
  /\ UNCHANGED phases

\* A sensor named CPU reading t, as the collectors build it.
cpuSensor(t) == [Name |-> "CPU", Temperature |-> t, Value |-> t]

\* getIntelTemperature with istats present (dynamic_info.go 837-881): the
\* reading that matches \d+\.\d+ is parsed and the parse error is dropped.
getIntelTemperature(reading) == <<cpuSensor(ParseFloat(reading).f)>>

\* getTemperatureInfo (dynamic_info.go 750-927).
darwin_getTemperatureInfo ==
  /\ pc = "getTemperatureInfo" /\ pc' = "getWiFiAutoJoinInfo"
  /\ \/ /\ Ok /\ Call("getTemperatureInfo", FALSE)       \* Apple Silicon, no thermal keys
        /\ info' = [info EXCEPT !.Temperature =
                      <<cpuSensor("0"), [Name |-> "GPU", Temperature |-> "0", Value |-> "0"]>>]
        /\ logs' = logs
     \/ /\ Failed("getTemperatureInfo") /\ Call("getTemperatureInfo", TRUE)
        /\ info' = info                                    \* Apple Silicon, sysctl -a fails
        /\ logs' = logs \cup {"temperature: sysctl failed", "Error getting temperature info"}
     \/ /\ Odd /\ Call("getTemperatureInfo", FALSE)        \* Intel, istats
        /\ \E reading \in {"36.5", HugeNumber} :
             info' = [info EXCEPT !.Temperature = getIntelTemperature(reading)]
        /\ logs' = logs
     \/ /\ Failed("temperature tools") /\ Call("getTemperatureInfo", FALSE)
        /\ info' = [info EXCEPT !.Temperature = <<cpuSensor("0")>>]
        /\ logs' = logs                                    \* neither istats nor osx-cpu-temp
  /\ UNCHANGED <<others, phases>>

\* getWiFiAutoJoinInfo (dynamic_info.go 930-977).
getWiFiAutoJoinInfo(i, plistExists) ==
  LET currentSSID == IF i.Network.WiFi.IsConnected THEN i.Network.WiFi.SSID ELSE ""
  IN IF ~plistExists
     THEN [IsConfigured |-> FALSE, Status |-> "not configured", Networks |-> << >>]
     ELSE IF currentSSID = ""
     THEN [IsConfigured |-> TRUE, Status |-> "configured", Networks |-> << >>]
     ELSE [IsConfigured |-> TRUE, Status |-> "configured",
           Networks |-> <<[SSID |-> currentSSID, AutoJoin |-> TRUE]>>]

\* The last sub-collection, and `return nil` (dynamic_info.go 465-470).
darwin_getWiFiAutoJoinInfo ==
  /\ pc = "getWiFiAutoJoinInfo"
  /\ pc' = IF entry = "GetDynamicSystemInfo" THEN "returned" ELSE "getWiFiInfo"
  /\ \/ Ok /\ info' = [info EXCEPT !.WiFiAutoJoin = getWiFiAutoJoinInfo(info, TRUE)]
     \/ Odd /\ info' = [info EXCEPT !.WiFiAutoJoin = getWiFiAutoJoinInfo(info, FALSE)]
  /\ Call("getWiFiAutoJoinInfo", FALSE)
  /\ UNCHANGED <<others, phases, logs>>

\* The error GetDynamicSystemInfo returns: `return nil` (dynamic_info.go 470).
GetDynamicSystemInfo_err == FALSE

(***************************************************************************)
(* internal/darwin: GetNetworkInfo (network_info.go), used by main.go      *)
(***************************************************************************)
netOthers == <<env, info, dynamicInfo, out, aux, calls>>

\* One sub-probe of GetNetworkInfo: `err = f(&networkInfo); if err != nil
\* { log.Printf(...) }`.  `okNet` is the structure after a successful probe,
\* `failNet` the structure after its command failed, `failErr` whether the
\* probe then returns the error.
net_step(at, next, fn, okNet, failNet, failErr, msg) ==
  /\ pc = at /\ pc' = next
  /\ \/ Ok /\ networkInfo' = okNet /\ logs' = logs
     \/ Failed(fn) /\ networkInfo' = failNet
        /\ logs' = IF failErr THEN logs \cup {msg} ELSE logs
  /\ UNCHANGED netOthers

SampleWiFi ==
  [Zero("WiFiInfo") EXCEPT !.SSID = "office", !.IsConnected = TRUE,
                           !.BSSID = "a0:b1:c2:d3:e4:f5", !.SignalStrength = -60,
                           !.Channel = 36, !.Frequency = "5", !.TxRate = 866]

\* getWiFiInfo: airport -I (network_info.go 90-175).
getWiFiInfo ==
  /\ build = "main.go"
  /\ net_step("getWiFiInfo", "getIPAndMACAddresses", "getWiFiInfo",
              [ZeroNetwork EXCEPT !.WiFi = SampleWiFi], ZeroNetwork, TRUE,
              "Error getting WiFi info")
  /\ phases' = Append(phases, "network")

\* The interface ifconfig and net.Interfaces() report; both collectors fill
\* the field MacAddress and leave MACAddress empty.
en0 ==
  [Name |-> "en0", IP |-> "192.168.1.10", MacAddress |-> "a4:83:e7:00:00:01",
   MACAddress |-> "", IsUp |-> TRUE, InBytes |-> 0, OutBytes |-> 0]

\* getIPAndMACAddresses: ifconfig (network_info.go 178-259).
getIPAndMACAddresses ==
  /\ net_step("getIPAndMACAddresses", "getAWDLStatus", "getIPAndMACAddresses",
              [networkInfo EXCEPT !.Interfaces = Append(@, en0)], networkInfo, TRUE,
              "Error getting IP and MAC addresses")
  /\ UNCHANGED phases

\* getAWDLStatus: ifconfig awdl0; a failure returns nil (network_info.go 262-278).
getAWDLStatus ==
  /\ net_step("getAWDLStatus", "getNetworkInterfaces", "getAWDLStatus",
              [networkInfo EXCEPT !.AWDLEnabled = TRUE], networkInfo, FALSE, "")
  /\ UNCHANGED phases

\* getNetworkInterfaces: net.Interfaces() (network_info.go 281-319).
getNetworkInterfaces ==
  /\ net_step("getNetworkInterfaces", "getNetworkTraffic", "getNetworkInterfaces",
              [networkInfo EXCEPT !.Interfaces = Append(@, en0)], networkInfo, TRUE,
              "Error getting network interfaces")
  /\ UNCHANGED phases

\* The counters of netstat -ib stored in the first interface of that name
\* (network_info.go 356-368).
withTraffic(ifaces, name, inB, outB) ==
  IF \E k \in 1..Len(ifaces) : ifaces[k].Name = name
  THEN LET k == FirstOf({j \in 1..Len(ifaces) : ifaces[j].Name = name})
       IN [ifaces EXCEPT ![k].InBytes = inB, ![k].OutBytes = outB]
  ELSE ifaces

\* getNetworkTraffic: netstat -ib (network_info.go 322-372).
getNetworkTraffic ==
  /\ net_step("getNetworkTraffic", "getNetworkLatency", "getNetworkTraffic",
              [networkInfo EXCEPT !.Interfaces = withTraffic(@, "en0", 7, 9)],
              networkInfo, TRUE, "Error getting network traffic")
  /\ UNCHANGED phases

\* The average of the ping summary, stored only when it parses
\* (network_info.go 383-392).
parsedLatency(net, text) ==
  LET r == ParseFloat(text)
  IN IF ~r.err THEN [net EXCEPT !.AvgLatency = r.f] ELSE net

\* getNetworkLatency: ping -c 3 -q 8.8.8.8 (network_info.go 375-395).
getNetworkLatency ==
  /\ pc = "getNetworkLatency" /\ pc' = "getVPNInfo"
  /\ \/ Ok /\ networkInfo' = parsedLatency(networkInfo, "12.3") /\ logs' = logs
     \/ Odd /\ networkInfo' = parsedLatency(networkInfo, HugeNumber) /\ logs' = logs
     \/ Failed("getNetworkLatency") /\ networkInfo' = networkInfo
        /\ Log("Error getting network latency")
  /\ UNCHANGED <<netOthers, phases>>

\* getVPNInfo: networksetup -listallnetworkservices (network_info.go 398-433).
getVPNInfo ==
  /\ net_step("getVPNInfo", "getDNSConfig", "getVPNInfo",
              [networkInfo EXCEPT !.VPN = [IsConnected |-> TRUE, NodeName |-> "",
                                           Services |-> <<"Office VPN">>]],
              networkInfo, TRUE, "Error getting VPN info")
  /\ UNCHANGED phases

\* getDNSConfig: scutil --dns (network_info.go 436-467).
getDNSConfig ==
  /\ net_step("getDNSConfig", "getPublicIP", "getDNSConfig",
              [networkInfo EXCEPT !.DNSServers = Append(@, "8.8.8.8")],
              networkInfo, TRUE, "Error getting DNS config")
  /\ UNCHANGED phases

\* getPublicIP: one HTTP GET (network_info.go 470-502).
getPublicIP ==
  /\ net_step("getPublicIP", "getProxyStatus", "getPublicIP",
              [networkInfo EXCEPT !.PublicIP = "203.0.113.7"],
              networkInfo, TRUE, "Error getting public IP")
  /\ UNCHANGED phases

\* getProxyStatus: networksetup -getwebproxy Wi-Fi (network_info.go 505-541).
getProxyStatus ==
  /\ net_step("getProxyStatus", "GetNetworkInfo_return", "getProxyStatus",
              [networkInfo EXCEPT !.ProxyInfo = [Enabled |-> TRUE, Server |-> "proxy.corp",
                                                 Port |-> 8080]],
              networkInfo, TRUE, "Error getting proxy status")
  /\ UNCHANGED phases

\* `info.Network = networkInfo; return nil` (network_info.go 84-86,
\* part_005 91-93).
GetNetworkInfo_return ==
  /\ pc = "GetNetworkInfo_return" /\ pc' = "GetSystemSoftwareInfo"
  /\ info' = [info EXCEPT !.Network = networkInfo]
  /\ UNCHANGED <<env, networkInfo, dynamicInfo, ghost, phases, logs, out, aux>>

\* The error GetNetworkInfo returns: `return nil`.
GetNetworkInfo_err == FALSE

(***************************************************************************)
(* darwin GetNetworkInfo of unnamed/part_005, used by the part_007 build   *)
(***************************************************************************)
\* What getWiFiInfo stores when system_profiler fails (part_005 100-119).
DefaultWiFi ==
  [SSID |-> "Kwai", BSSID |-> "cc:dd:ee:ff:gg:hh", CountryCode |-> "CN", RSSI |-> -56,
   Noise |-> -84, PHYMode |-> "802.11ac", Channel |-> 52, TxRate |-> 600, MCS |-> 9,
   NSS |-> 3, SupportedPHY |-> "802.11a/b/g/n/ac/ax", IsConnected |-> TRUE,
   SignalStrength |-> -56, Frequency |-> "5"]

\* getWiFiInfo: system_profiler SPAirPortDataType (part_005 97-236).
p005_getWiFiInfo ==
  /\ build = "part_007"
  /\ net_step("getWiFiInfo", "p005_getIPAndMacAddress", "p005_getWiFiInfo",
              [ZeroNetwork EXCEPT !.WiFi = SampleWiFi],
              [ZeroNetwork EXCEPT !.WiFi = DefaultWiFi], FALSE, "")
  /\ phases' = Append(phases, "network")

\* The tail of getIPAndMacAddress (part_005 293-300): defaults for what the
\* scan of ifconfig -a did not find.
withDefaultAddress(net, foundIP, foundMac) ==
  [net EXCEPT !.IP = IF foundIP THEN @ ELSE "172.22.23.5",
              !.MacAddress = IF foundMac THEN @ ELSE "aa:bb:cc:dd:ee:ff"]

\* getIPAndMacAddress: ifconfig -a (part_005 239-303).
p005_getIPAndMacAddress ==
  /\ pc = "p005_getIPAndMacAddress" /\ pc' = "p005_getAWDLStatus"
  /\ \/ /\ Ok /\ logs' = logs
        /\ networkInfo' =
             withDefaultAddress([networkInfo EXCEPT !.IP = "192.168.1.10",
                                                    !.MacAddress = "a4:83:e7:00:00:01"],
                                TRUE, TRUE)
     \/ /\ Odd /\ logs' = logs              \* no en0/en1 block with an address
        /\ networkInfo' = withDefaultAddress(networkInfo, FALSE, FALSE)
     \/ /\ Failed("p005_getIPAndMacAddress") /\ networkInfo' = networkInfo
        /\ Log("Error getting IP and MAC address")
  /\ UNCHANGED <<netOthers, phases>>

\* getAWDLStatus: ifconfig awdl0 (part_005 306-326).
p005_getAWDLStatus ==
  /\ net_step("p005_getAWDLStatus", "p005_getDNSConfig", "p005_getAWDLStatus",
              [networkInfo EXCEPT !.AWDLStatus = "inactive", !.AWDLEnabled = FALSE],
              [networkInfo EXCEPT !.AWDLStatus = "active", !.AWDLEnabled = TRUE],
              FALSE, "")
  /\ UNCHANGED phases

\* getDNSConfig: scutil --dns (part_005 329-439).
p005_getDNSConfig ==
  /\ net_step("p005_getDNSConfig", "p005_getPublicIP", "p005_getDNSConfig",
              [networkInfo EXCEPT !.DNS = [Servers |-> <<"8.8.8.8">>, HostEntries |-> << >>],
                                  !.DNSServers = <<"8.8.8.8">>],
              networkInfo, TRUE, "Error getting DNS config")
  /\ UNCHANGED phases

\* getPublicIP (part_005 452-484).
p005_getPublicIP ==
  /\ net_step("p005_getPublicIP", "p005_getVPNInfo", "p005_getPublicIP",
              [networkInfo EXCEPT !.PublicIP = "203.0.113.7"],
              networkInfo, TRUE, "Error getting public IP")
  /\ UNCHANGED phases

\* getVPNInfo (part_005 487-621): when the service list can be read, the
\* result is marked connected whatever was detected.
p005_getVPNInfo ==
  /\ net_step("p005_getVPNInfo", "p005_getNetworkLatency", "p005_getVPNInfo",
              [networkInfo EXCEPT !.VPN = [IsConnected |-> TRUE, NodeName |-> "APAC node",
                                           Services |-> << >>]],
              networkInfo, TRUE, "Error getting VPN info")
  /\ UNCHANGED phases

\* One target of getNetworkLatency (part_005 649-679): both numbers of the
\* ping summary are parsed and the parse errors dropped.
targetLatency(host, min, avg) ==
  [TargetHost |-> host, MinLatency |-> ParseFloat(min).f, AvgLatency |-> ParseFloat(avg).f]

\* getNetworkLatency: ping of each target (part_005 624-745); a failed ping
\* is logged and skipped, and the function returns nil.
p005_getNetworkLatency ==
  /\ pc = "p005_getNetworkLatency" /\ pc' = "p005_getProxyStatus"
  /\ \/ /\ Ok /\ logs' = logs
        /\ networkInfo' = [networkInfo EXCEPT !.Latency =
             [AvgLatency |-> "0", Targets |-> <<targetLatency("8.8.8.8", "5", "12.3")>>]]
     \/ /\ Odd /\ logs' = logs
        /\ networkInfo' = [networkInfo EXCEPT !.Latency =
             [AvgLatency |-> "0", Targets |-> <<targetLatency("8.8.8.8", "5", HugeNumber)>>]]
     \/ /\ Failed("p005_getNetworkLatency") /\ Log("Error pinging")
        /\ networkInfo' = [networkInfo EXCEPT !.Latency =
                             [AvgLatency |-> "0", Targets |-> << >>]]
  /\ UNCHANGED <<netOthers, phases>>

\* getProxyStatus (part_005 748-784).
p005_getProxyStatus ==
  /\ net_step("p005_getProxyStatus", "p005_getRouteTable", "p005_getProxyStatus",
              [networkInfo EXCEPT !.ProxyInfo = [Enabled |-> TRUE, Server |-> "proxy.corp",
                                                 Port |-> 8080]],
              networkInfo, TRUE, "Error getting proxy status")
  /\ UNCHANGED phases

\* getRouteTable: netstat -nr (part_005 787-838).
p005_getRouteTable ==
  /\ net_step("p005_getRouteTable", "p005_getHostsFile", "p005_getRouteTable",
              [networkInfo EXCEPT !.RouteTable =
                 <<[Destination |-> "default", Gateway |-> "192.168.1.1"]>>],
              networkInfo, TRUE, "Error getting route table")
  /\ UNCHANGED phases

\* getHostsFile: /etc/hosts (part_005 841-875).
p005_getHostsFile ==
  /\ net_step("p005_getHostsFile", "p005_getNetworkTraffic", "p005_getHostsFile",
              [networkInfo EXCEPT !.DNS.HostEntries =
                 <<[IP |-> "127.0.0.1", Hostname |-> "localhost"]>>],
              networkInfo, TRUE, "Error getting hosts file")
  /\ UNCHANGED phases

\* getNetworkTraffic: two samples of netstat -I en0 -b (part_005 878-919).
p005_getNetworkTraffic ==
  /\ net_step("p005_getNetworkTraffic", "GetNetworkInfo_return", "p005_getNetworkTraffic",
              [networkInfo EXCEPT !.NetworkTraffic = "1.50 KB/s",
                                  !.ProcessTraffic = "1.50 KB/s"],
              [networkInfo EXCEPT !.NetworkTraffic = "0 KB/s",
                                  !.ProcessTraffic = "0 KB/s"], FALSE, "")
  /\ UNCHANGED phases

(***************************************************************************)
(* internal/darwin: the end of GetSystemInfo                               *)
(***************************************************************************)
\* GetSystemSoftwareInfo (command.go 324-327): its body is not part of the
\* sources; it fills the software section or returns an error that is logged.
GetSystemSoftwareInfo ==
  /\ pc = "GetSystemSoftwareInfo" /\ pc' = "darwin_return"
  /\ \/ /\ Ok /\ logs' = logs
        /\ info' = [info EXCEPT !.SystemVersion = "14.4", !.ComputerName = "mbp",
                                !.InstalledApps = <<SampleApp>>,
                                !.RunningApps = <<SampleProcess>>]
     \/ /\ Failed("GetSystemSoftwareInfo") /\ info' = info
        /\ Log("Error getting system and software info")
  /\ UNCHANGED <<others, calls, phases>>

\* `return info, nil` (command.go 329); the caller assigns the error to err.
darwin_GetSystemInfo_return ==
  /\ pc = "darwin_return" /\ pc' = "collected"
  /\ err' = darwin_GetSystemInfo_err
  /\ UNCHANGED <<env, collected, ghost, phases, logs, stdout, file, exitCode, aux>>

(***************************************************************************)
(* internal/windows: GetSystemInfo (wmi.go 81-221)                         *)
(***************************************************************************)
\* One query of the Windows static collector: on success the fields are
\* stored, on failure `failInfo` is what the code leaves and `msgs` what it logs.
win_step(at, next, fn, okInfo, failInfo, msgs) ==
  /\ pc = at /\ pc' = next
  /\ \/ Ok /\ info' = okInfo /\ logs' = logs
     \/ Failed(fn) /\ info' = failInfo /\ logs' = logs \cup msgs
  /\ UNCHANGED <<others, calls>>

\* host.Info() (wmi.go 85-96).
win_hostInfo ==
  /\ win_step("win_hostInfo", "win_computerSystem", "win host.Info",
              [info EXCEPT !.Hostname = "DESKTOP-1", !.OS = "windows 10.0"],
              info, {"Error getting host info"})
  /\ phases' = Append(phases, "static")

\* Win32_ComputerSystem and getMarketingModelName (wmi.go 98-111).
win_computerSystem ==
  /\ win_step("win_computerSystem", "win_bios", "Win32_ComputerSystem",
              [info EXCEPT !.ModelID = "20XW", !.Model = "ThinkPad X1 Carbon"],
              info, {})
  /\ UNCHANGED phases

\* Win32_BIOS (wmi.go 113-119).
win_bios ==
  /\ win_step("win_bios", "win_processor", "Win32_BIOS",
              [info EXCEPT !.SerialNumber = "PF2ABCDE"], info, {})
  /\ UNCHANGED phases

\* The two results of safeWMIQuery: the error and the rows stored in dst.
WMIOk(rows) == [err |-> FALSE, rows |-> rows]
WMIFail == [err |-> TRUE, rows |-> << >>]

\* One query as the collector issued it: its class, whether it returned an
\* error, and the number of rows it returned.
Query(fn, res) == [fn |-> fn, err |-> res.err, rows |-> Len(res.rows)]

\* A processor query that a preceding result never suppresses.
alwaysFallsBack(primary) == TRUE

\* wmi.go 125, 130: the else branch of `err == nil && len(processors) > 0`.
processorFallsBack(primary) == primary.err \/ Len(primary.rows) = 0

\* Win32_Processor, its aliased query, and the default (wmi.go 121-154): the
\* CPU stored, the queries issued in order, and whether the fallback is logged.
\* `alt` is what the aliased query returns if it is issued.
queryProcessor(primary, alt) ==
  IF ~processorFallsBack(primary)
  THEN [CPU |-> [Model |-> primary.rows[1].Name, Cores |-> primary.rows[1].NumberOfCores],
        queries |-> <<Query("Win32_Processor", primary)>>,
        fallback |-> FALSE]
  ELSE [CPU |-> IF ~alt.err /\ Len(alt.rows) > 0
                THEN [Model |-> alt.rows[1].ProcessorName, Cores |-> alt.rows[1].CoreCount]
                ELSE [Model |-> "Unknown CPU", Cores |-> 0],
        queries |-> <<Query("Win32_Processor", primary),
                      Query("Win32_Processor aliased", alt)>>,
        fallback |-> TRUE]

processorRows == <<[Name |-> "Intel(R) Core(TM) i7", NumberOfCores |-> 8]>>
altProcessorRows == <<[ProcessorName |-> "Intel(R) Core(TM) i7", CoreCount |-> 8]>>

\* The step of GetSystemInfo for the processor (wmi.go 121-154).
win_processor ==
  /\ pc = "win_processor" /\ pc' = "win_memory"
  /\ \E primary \in {WMIOk(processorRows), WMIOk(<< >>), WMIFail},
        alt \in {WMIOk(altProcessorRows), WMIFail} :
       LET q == queryProcessor(primary, alt)
       IN /\ IF ~processorFallsBack(primary) THEN Ok /\ alt = WMIFail
             ELSE IF ~alt.err THEN Odd
             ELSE Failed("Win32_Processor") /\ primary.err
          /\ info' = [info EXCEPT !.CPU = q.CPU]
          /\ calls' = calls \o q.queries
          /\ logs' = IF q.fallback
                     THEN logs \cup {"Falling back to alternative method for CPU info"}
                     ELSE logs
  /\ UNCHANGED <<others, phases>>

\* getMemoryTypeString (wmi.go 266-311) on the rows of Win32_PhysicalMemory:
\* no row gives "Unknown", a row its type name (26 is DDR4).
getMemoryTypeString(memoryModules) ==
  IF Len(memoryModules) = 0 THEN "Unknown"
  ELSE CASE memoryModules[1].MemoryType = 0 -> "Unknown"
         [] memoryModules[1].MemoryType = 24 -> "DDR3"
         [] memoryModules[1].MemoryType = 26 -> "DDR4"
         [] OTHER -> "Unknown (code)"

\* Win32_PhysicalMemory and mem.VirtualMemory() (wmi.go 156-169): the error of
\* the WMI query is overwritten, its rows (none on failure) give the type.
win_memory ==
  /\ pc = "win_memory" /\ pc' = "win_diskDrives"
  /\ \/ /\ Ok /\ logs' = logs
        /\ info' = [info EXCEPT !.Memory =
                      [Total |-> 16,
                       Type |-> getMemoryTypeString(<<[Capacity |-> 16, MemoryType |-> 26]>>)]]
     \/ /\ Failed("Win32_PhysicalMemory") /\ logs' = logs
        /\ info' = [info EXCEPT !.Memory =
                      [Total |-> 16, Type |-> getMemoryTypeString(<< >>)]]
     \/ /\ Failed("win mem.VirtualMemory") /\ info' = info
        /\ Log("Error getting memory info")
  /\ UNCHANGED <<others, calls, phases>>

\* wmi.go 176-185 and 199-208: one row as a model.Disk; ParseUint of the size
\* (0 when it does not parse) divided down to GB.  Sizes are counted in MiB.
diskOf(caption, mdl, size, serial) ==
  [Name |-> caption, Model |-> mdl, Size |-> size \div 1024, Serial |-> serial]

RECURSIVE appendDisks(_, _, _)
appendDisks(disks, rows, aliased) ==
  IF rows = << >> THEN disks
  ELSE LET d == Head(rows)
       IN appendDisks(Append(disks,
                             IF aliased
                             THEN diskOf(d.DiskName, d.DiskModel, d.DiskSize, d.DiskSerial)
                             ELSE diskOf(d.Caption, d.Model, d.Size, d.SerialNumber)),
                      Tail(rows), aliased)

\* Win32_DiskDrive and its aliased query (wmi.go 171-211): the list after the
\* block and the queries issued in order.  The aliased query runs when the
\* first one fails; the list is untouched when both fail.
queryDiskDrives(disks, primary, alt) ==
  IF ~primary.err
  THEN [Disks |-> appendDisks(disks, primary.rows, FALSE),
        queries |-> <<Query("Win32_DiskDrive", primary)>>]
  ELSE [Disks |-> IF ~alt.err THEN appendDisks(disks, alt.rows, TRUE) ELSE disks,
        queries |-> <<Query("Win32_DiskDrive", primary),
                      Query("Win32_DiskDrive aliased", alt)>>]

diskRows ==
  <<[Caption |-> "Samsung SSD", Model |-> "MZVLB512", Size |-> 487424,
     SerialNumber |-> "S4EW"]>>
altDiskRows ==
  <<[DiskName |-> "Samsung SSD", DiskModel |-> "MZVLB512", DiskSize |-> 487424,
     DiskSerial |-> "S4EW"]>>

\* The step of GetSystemInfo for the disks (wmi.go 171-211).
win_diskDrives ==
  /\ pc = "win_diskDrives" /\ pc' = "win_uuid"
  /\ \E primary \in {WMIOk(diskRows), WMIFail}, alt \in {WMIOk(altDiskRows), WMIFail} :
       LET q == queryDiskDrives(info.Disks, primary, alt)
       IN /\ IF ~primary.err THEN Ok /\ alt = WMIFail
             ELSE IF ~alt.err THEN Odd
             ELSE Failed("Win32_DiskDrive")
          /\ info' = [info EXCEPT !.Disks = q.Disks]
          /\ calls' = calls \o q.queries
  /\ logs' = logs
  /\ UNCHANGED <<others, phases>>

\* Win32_ComputerSystemProduct, and `return info, nil` (wmi.go 213-220).
win_uuid ==
  /\ pc = "win_uuid"
  /\ \/ Ok /\ info' = [info EXCEPT !.UUID = "4C4C4544"]
     \/ Failed("Win32_ComputerSystemProduct") /\ info' = info
  /\ err' = windows_GetSystemInfo_err
     \* GetAllSystemInfo returns at once when the error is not nil (part_002 287-290)
  /\ pc' = IF entry = "GetAllSystemInfo"
           THEN (IF err' THEN "returned" ELSE "win_GetNetworkInfo")
           ELSE "collected"
  /\ UNCHANGED <<env, networkInfo, dynamicInfo, stdout, file, exitCode, aux, calls,
                 phases, logs>>

(***************************************************************************)
(* internal/windows: getBatteryInfo (dynamic_info.go 153-224)              *)
(***************************************************************************)
\* strconv.Atoi on a run of digits.
Atoi(s) ==
  CASE s = "0" -> 0 [] s = "1" -> 1 [] s = "2" -> 2 [] s = "3" -> 3
    [] s = "4" -> 4 [] s = "11" -> 11 [] s = "80" -> 80
    [] s = "-55" -> 0 - 55 [] s = "-60" -> 0 - 60
    [] OTHER -> 0

\* switch battery.BatteryStatus (dynamic_info.go 202-215).
batteryState(code) ==
  CASE code = 1 -> [IsCharging |-> FALSE, Status |-> "Discharging"]
    [] code = 2 -> [IsCharging |-> TRUE, Status |-> "Charging"]
    [] code = 3 -> [IsCharging |-> FALSE, Status |-> "Fully Charged"]
    [] OTHER -> [IsCharging |-> FALSE, Status |-> "Unknown"]

\* getBatteryInfo: wmi is the result of the Win32_Battery query, ps of the
\* PowerShell command with the submatches of the two regular expressions on
\* its output.  The result names the path taken.
getBatteryInfo_windows(wmi, ps) ==
  LET batteryInfo == Zero("BatteryInfo")
  IN IF wmi.err \/ Len(wmi.batteries) = 0
     THEN IF ps.err
          THEN [battery |-> batteryInfo, err |-> TRUE, path |-> "powershell"]
          ELSE LET b1 == IF Len(ps.statusMatches) > 1
                         THEN [batteryInfo EXCEPT
                                 !.IsCharging = (Atoi(ps.statusMatches[2]) = 2)]
                         ELSE batteryInfo
                   b2 == IF Len(ps.percentMatches) > 1
                         THEN [b1 EXCEPT !.Percentage = Atoi(ps.percentMatches[2])]
                         ELSE b1
               IN [battery |-> [b2 EXCEPT !.IsPresent = TRUE, !.Health = "Normal"],
                   err |-> FALSE, path |-> "powershell"]
     ELSE LET battery == wmi.batteries[1]
              st == batteryState(battery.BatteryStatus)
          IN [battery |-> [batteryInfo EXCEPT
                             !.IsPresent = TRUE,
                             !.Percentage = battery.EstimatedChargeRemaining,
                             !.IsCharging = st.IsCharging,
                             !.Status = st.Status,
                             !.Health = "Normal",
                             !.CycleCount = 0],
              err |-> FALSE, path |-> "wmi"]

\* The BatteryStatus codes tried: the three named ones and others.
BatteryCodes == {"0", "1", "2", "3", "4", "11"}

BatteryInputs ==
  [ wmi : { [err |-> TRUE, batteries |-> << >>], [err |-> FALSE, batteries |-> << >>] }
            \cup { [err |-> FALSE,
                    batteries |-> << [BatteryStatus |-> Atoi(c),
                                      EstimatedChargeRemaining |-> 80] >>] :
                   c \in BatteryCodes },
    ps : { [err |-> TRUE, statusMatches |-> << >>, percentMatches |-> << >>],
           [err |-> FALSE, statusMatches |-> << >>, percentMatches |-> << >>] }
           \cup { [err |-> FALSE, statusMatches |-> <<"BatteryStatus : " \o c, c>>,
                   percentMatches |-> <<"EstimatedChargeRemaining : 80", "80">>] :
                  c \in BatteryCodes } ]

(***************************************************************************)
(* internal/windows: getTemperatureInfo (dynamic_info.go 334-439)          *)
(***************************************************************************)
\* A float64 with one decimal, given in tenths, as the token of its value.
Tenths(t) ==
  IF t % 10 = 0 THEN ToString(t \div 10)
  ELSE ToString(t \div 10) \o "." \o ToString(t % 10)

\* strings.TrimSuffix(tempStr, "degree sign C"); the sign is written degC here.
TrimSuffixDegC(s) ==
  CASE s = "36.5degC" -> "36.5"
    [] s = "12.3degC" -> "12.3"
    [] OTHER -> s

\* The loop over the lines of the OpenHardwareMonitor report (dynamic_info.go
\* 348-377).  A line is the list of its whitespace-separated fields; the
\* readings follow the line "Temperatures:" up to the next blank line.
RECURSIVE ohmReadings(_, _, _, _)
ohmReadings(lines, k, inTempSection, tempInfo) ==
  IF k > Len(lines) THEN tempInfo
  ELSE LET fields == lines[k]
       IN IF \E j \in 1..Len(fields) : fields[j] = "Temperatures:"
          THEN ohmReadings(lines, k + 1, TRUE, tempInfo)
          ELSE IF inTempSection /\ fields = << >>
          THEN ohmReadings(lines, k + 1, FALSE, tempInfo)
          ELSE IF inTempSection /\ Len(fields) >= 2
          THEN LET temp == ParseFloat(TrimSuffixDegC(fields[Len(fields)]))
               IN ohmReadings(lines, k + 1, inTempSection,
                    IF ~temp.err
                    THEN Append(tempInfo, [Name |-> fields[1], Temperature |-> temp.f,
                                           Location |-> "System"])
                    ELSE tempInfo)
          ELSE ohmReadings(lines, k + 1, inTempSection, tempInfo)

\* A tier that reports every vendor report as data.
anyReport(tempInfo) == TRUE

\* `if len(tempInfo) > 0 { return tempInfo, nil }` (dynamic_info.go 379-381).
hasReadings(tempInfo) == Len(tempInfo) > 0

\* The readings of the rows of Win32_TemperatureSensor (dynamic_info.go
\* 389-397): CurrentReading is in tenths of a degree.
wmiReadings(sensors) ==
  [k \in 1..Len(sensors) |->
     [Name |-> sensors[k].Name, Temperature |-> Tenths(sensors[k].CurrentReading),
      Location |-> sensors[k].Location]]

\* 30.0 + cpuPercent[0] * 0.6 and the GPU placeholder (dynamic_info.go 407-420);
\* the utilisation is a whole percentage here.
cpuEstimate(cpuPercent) ==
  << [Name |-> "CPU", Temperature |-> Tenths(300 + cpuPercent[1] * 6),
      Location |-> "Processor"],
     [Name |-> "GPU", Temperature |-> "0", Location |-> "Graphics"] >>

\* The defaults returned when every method failed (dynamic_info.go 426-436).
defaultReadings ==
  << [Name |-> "CPU", Temperature |-> "0", Location |-> "Processor"],
     [Name |-> "GPU", Temperature |-> "0", Location |-> "Graphics"] >>

\* getTemperatureInfo: the sources it ran, in order, and the list it returns.
\* ohm is the result of running the vendor tool, wmi of the WMI query and cpu
\* of cpu.Percent, each with its error.
getTemperatureInfo_windows(ohm, wmi, cpu) ==
  LET tempInfo == IF ~ohm.err THEN ohmReadings(ohm.lines, 1, FALSE, << >>) ELSE << >>
  IN IF ~ohm.err /\ hasReadings(tempInfo)
     THEN [tiers |-> <<"OpenHardwareMonitor">>, tempInfo |-> tempInfo, err |-> FALSE]
     ELSE IF ~wmi.err /\ Len(wmi.sensors) > 0
     THEN [tiers |-> <<"OpenHardwareMonitor", "Win32_TemperatureSensor">>,
           tempInfo |-> tempInfo \o wmiReadings(wmi.sensors), err |-> FALSE]
     ELSE IF ~cpu.err /\ Len(cpu.percent) > 0
     THEN [tiers |-> <<"OpenHardwareMonitor", "Win32_TemperatureSensor", "cpu.Percent">>,
           tempInfo |-> tempInfo \o cpuEstimate(cpu.percent), err |-> FALSE]
     ELSE [tiers |-> <<"OpenHardwareMonitor", "Win32_TemperatureSensor", "cpu.Percent",
                       "defaults">>,
           tempInfo |-> tempInfo \o defaultReadings, err |-> FALSE]

\* The readings as the fields of TempSensorInfo the model carries.
asSensors(tempInfo) ==
  [k \in 1..Len(tempInfo) |->
     [Name |-> tempInfo[k].Name, Temperature |-> tempInfo[k].Temperature, Value |-> "0"]]

\* Results of the vendor tool: not installed, a report without the section, a
\* report whose only value is not a number, and reports with readings.
OhmResults ==
  { [err |-> TRUE, lines |-> << >>],
    [err |-> FALSE, lines |-> << <<"Sensors">>, <<"CPU", "36.5degC">> >>],
    [err |-> FALSE, lines |-> << <<"Temperatures:">>, <<"CPU", "n/a">>, <<"idle">> >>],
    [err |-> FALSE, lines |-> << <<"Temperatures:">>, <<"CPU", "Core", "36.5degC">>,
                                 <<"GPU", "12.3">>, << >>, <<"Fan", "5">> >>],
    [err |-> FALSE, lines |-> << <<"Temperatures:">>, <<"CPU", "5">> >>] }

WmiResults ==
  { [err |-> TRUE, sensors |-> << >>],
    [err |-> FALSE, sensors |-> << >>],
    [err |-> FALSE, sensors |-> << [Name |-> "ACPI", CurrentReading |-> 415,
                                    Location |-> "Board"] >>] }

CpuResults ==
  { [err |-> TRUE, percent |-> << >>], [err |-> FALSE, percent |-> << >>],
    [err |-> FALSE, percent |-> <<50>>], [err |-> FALSE, percent |-> <<100>>] }

(***************************************************************************)
(* internal/windows: GetDynamicInfo (dynamic_info.go 47-150)               *)
(***************************************************************************)
\* One sub-collection of GetDynamicInfo, filling the function's own `info`.
\* `logged` tells whether the code logs the error of this sub-collection.
windyn_step(at, next, fn, field, value, logged, msg) ==
  /\ pc = at /\ pc' = next
  /\ \/ Ok /\ Call(fn, FALSE) /\ dynamicInfo' = [dynamicInfo EXCEPT ![field] = value]
        /\ logs' = logs
     \/ Failed(fn) /\ Call(fn, TRUE) /\ dynamicInfo' = dynamicInfo
        /\ logs' = IF logged THEN logs \cup {msg} ELSE logs
  /\ UNCHANGED <<env, info, networkInfo, out, aux>>

\* disk.Partitions and disk.Usage (dynamic_info.go 52-71).
win_diskUsage ==
  /\ windyn_step("win_diskUsage", "win_memoryUsage", "disk.Partitions", "DiskUsage",
                 <<[SamplePartition EXCEPT !.MountPoint = "C:", !.Filesystem = "NTFS"]>>,
                 TRUE, "Error getting disk partitions")
  /\ phases' = Append(phases, "dynamic")

\* mem.VirtualMemory (dynamic_info.go 74-88).
win_memoryUsage ==
  /\ windyn_step("win_memoryUsage", "win_getBatteryInfo", "mem.VirtualMemory",
                 "MemoryUsage", [Total |-> 16, Used |-> 8, UsedPerc |-> "50"],
                 TRUE, "Error getting memory stats")
  /\ UNCHANGED phases

\* getBatteryInfo (dynamic_info.go 91-96 and 153-224).
win_getBatteryInfo ==
  /\ windyn_step("win_getBatteryInfo", "win_getACAdapterInfo", "getBatteryInfo",
                 "Battery",
                 getBatteryInfo_windows(
                   [err |-> FALSE, batteries |-> << [BatteryStatus |-> 2,
                                                     EstimatedChargeRemaining |-> 80] >>],
                   [err |-> TRUE, statusMatches |-> << >>,
                    percentMatches |-> << >>]).battery,
                 TRUE, "Error getting battery info")
  /\ UNCHANGED phases

\* getACAdapterInfo (dynamic_info.go 99-104 and 227-280); it returns no error.
win_getACAdapterInfo ==
  /\ pc = "win_getACAdapterInfo" /\ pc' = "win_getBluetoothInfo"
  /\ Ok /\ Call("getACAdapterInfo", FALSE)
  /\ dynamicInfo' = [dynamicInfo EXCEPT !.ACAdapter =
                       [Connected |-> TRUE, IsConnected |-> TRUE, SerialNum |-> "Unknown",
                        Name |-> "AC Adapter", Wattage |-> 0]]
  /\ UNCHANGED <<env, info, networkInfo, out, aux, logs, phases>>

\* getBluetoothInfo (dynamic_info.go 107-112 and 283-331).
win_getBluetoothInfo ==
  /\ windyn_step("win_getBluetoothInfo", "win_getTemperatureInfo", "getBluetoothInfo",
                 "Bluetooth",
                 [Zero("BluetoothInfo") EXCEPT !.Enabled = TRUE, !.IsAvailable = TRUE],
                 TRUE, "Error getting bluetooth info")
  /\ UNCHANGED phases

\* getTemperatureInfo (dynamic_info.go 115-120 and 334-439); it returns no error.
win_getTemperatureInfo ==
  /\ pc = "win_getTemperatureInfo" /\ pc' = "win_getInstalledApps"
  /\ Call("getTemperatureInfo", FALSE)
  /\ \E ohm \in {[err |-> FALSE, lines |-> << <<"Temperatures:">>, <<"CPU", "36.5degC">> >>],
                  [err |-> TRUE, lines |-> << >>]} :
       /\ IF ohm.err THEN Odd ELSE Ok
       /\ dynamicInfo' = [dynamicInfo EXCEPT !.Temperature =
            asSensors(getTemperatureInfo_windows(ohm, [err |-> TRUE, sensors |-> << >>],
                                                 [err |-> TRUE, percent |-> << >>]).tempInfo)]
  /\ UNCHANGED <<env, info, networkInfo, out, aux, logs, phases>>

\* getInstalledApps (dynamic_info.go 123-125): `if apps, err := ...; err == nil`.
win_getInstalledApps ==
  /\ windyn_step("win_getInstalledApps", "win_getRunningApps", "getInstalledApps",
                 "InstalledApps", <<[Name |-> "7-Zip", Version |-> "23.01"]>>, FALSE, "")
  /\ UNCHANGED phases

\* getRunningApps (dynamic_info.go 128-130).
win_getRunningApps ==
  /\ windyn_step("win_getRunningApps", "win_bootTime", "getRunningApps",
                 "RunningApps", <<[PID |-> 4, Name |-> "System", Memory |-> 128]>>,
                 FALSE, "")
  /\ UNCHANGED phases

\* host.BootTime, and `return info, nil` (dynamic_info.go 133-149).
win_bootTime ==
  /\ windyn_step("win_bootTime",
                 IF entry = "GetAllSystemInfo" THEN "all_merge" ELSE "returned",
                 "host.BootTime", "UpTime", "3h12m", FALSE, "")
  /\ UNCHANGED phases

\* The error GetDynamicInfo returns: `return info, nil` (dynamic_info.go 149).
GetDynamicInfo_err == FALSE

(***************************************************************************)
(* windows.GetAllSystemInfo (unnamed/part_002 285-314)                     *)
(***************************************************************************)
\* The error windows.GetNetworkInfo returns: `return info, nil` (part_002 445).
win_GetNetworkInfo_err == FALSE

\* if err == nil { sysInfo.Network = netInfo } (part_002 293-296): sysInfo
\* after the block, e telling whether GetNetworkInfo returned an error.
mergeNetwork(sysInfo, netInfo, e) ==
  IF e THEN sysInfo ELSE [sysInfo EXCEPT !.Network = netInfo]

\* netInfo, err := GetNetworkInfo(); if err == nil { sysInfo.Network = netInfo }
\* (part_002 292-296, with GetNetworkInfo of part_002 367-446 as one step).
win_GetNetworkInfo ==
  /\ pc = "win_GetNetworkInfo" /\ pc' = "win_diskUsage"
  /\ phases' = Append(phases, "network")
  /\ \/ /\ Ok /\ logs' = logs
        /\ networkInfo' = [ZeroNetwork EXCEPT !.IP = "192.168.1.20",
                                              !.MacAddress = "00:1a:2b:3c:4d:5e",
                                              !.DNSServers = <<"192.168.1.1">>]
     \/ /\ Failed("Win32_NetworkAdapterConfiguration") /\ networkInfo' = ZeroNetwork
        /\ Log("Error getting network adapters or no adapters found")
  /\ info' = mergeNetwork(info, networkInfo', win_GetNetworkInfo_err)
  /\ UNCHANGED <<env, dynamicInfo, out, aux, calls>>

\* The fields GetAllSystemInfo copies from the result of GetDynamicInfo
\* (part_002 300-310).
MergedFields ==
  {"DiskUsage", "MemoryUsage", "Battery", "ACAdapter", "Bluetooth", "Temperature",
   "InstalledApps", "RunningApps", "UpTime"}

\* A merge that takes the whole dynamic result but for Network.
copyWhole(sysInfo, dyn, e) ==
  IF e THEN sysInfo
  ELSE [f \in DOMAIN sysInfo |-> IF f = "Network" THEN sysInfo[f] ELSE dyn[f]]

\* if err == nil { sysInfo.DiskUsage = dynamicInfo.DiskUsage ... } (part_002
\* 300-310): sysInfo after the block, e telling whether GetDynamicInfo
\* returned an error.
mergeDynamic(sysInfo, dyn, e) ==
  IF e THEN sysInfo
  ELSE [f \in DOMAIN sysInfo |-> IF f \in MergedFields THEN dyn[f] ELSE sysInfo[f]]

\* The error GetAllSystemInfo returns after the static collection succeeded:
\* `return sysInfo, nil` (part_002 313).
GetAllSystemInfo_err == FALSE

\* dynamicInfo, err := GetDynamicInfo(); if err == nil { ... }; return sysInfo, nil.
all_merge ==
  /\ pc = "all_merge" /\ pc' = "returned"
  /\ info' = mergeDynamic(info, dynamicInfo, GetDynamicInfo_err)
  /\ err' = GetAllSystemInfo_err
  /\ UNCHANGED <<env, networkInfo, dynamicInfo, ghost, phases, logs, stdout, file, exitCode, aux>>

(***************************************************************************)
(* The windows package built for another operating system (part_003)       *)
(***************************************************************************)
\* return model.SystemInfo{}, fmt.Errorf(...): the report and whether the
\* error is non-nil.
stub_result == [info |-> ZeroInfo, err |-> TRUE]

\* A stub called on its own: the caller receives its two results.
stub_return(fn) ==
  /\ pc = "stub" /\ entry = fn /\ pc' = "collected"
  /\ info' = stub_result.info
  /\ err' = stub_result.err
  /\ UNCHANGED <<env, networkInfo, dynamicInfo, ghost, phases, logs, stdout, file,
                 exitCode, aux>>

\* GetSystemInfo (part_003 14-16).
stub_GetSystemInfo == TRUE /\ stub_return("windows.GetSystemInfo")
\* GetAllSystemInfo (part_003 19-21).
stub_GetAllSystemInfo == TRUE /\ stub_return("windows.GetAllSystemInfo")
\* GetDynamicInfo (part_003 29-31).
stub_GetDynamicInfo == TRUE /\ stub_return("windows.GetDynamicInfo")

(***************************************************************************)
(* The specifications                                                      *)
(***************************************************************************)
darwin_static ==
  \/ darwin_hostInfo \/ darwin_hwModel \/ darwin_marketingName \/ darwin_serialNumber
  \/ darwin_cpu \/ darwin_memory \/ darwin_disks \/ darwin_uuid

GetDynamicSystemInfo ==
  \/ darwin_getDiskUsage \/ darwin_getMemoryUsage \/ darwin_getBatteryInfo
  \/ darwin_getACAdapterInfo \/ darwin_getBluetoothInfo \/ darwin_getTemperatureInfo
  \/ darwin_getWiFiAutoJoinInfo

GetNetworkInfo ==
  \/ getWiFiInfo \/ getIPAndMACAddresses \/ getAWDLStatus \/ getNetworkInterfaces
  \/ getNetworkTraffic \/ getNetworkLatency \/ getVPNInfo \/ getDNSConfig
  \/ getPublicIP \/ getProxyStatus

p005_GetNetworkInfo ==
  \/ p005_getWiFiInfo \/ p005_getIPAndMacAddress \/ p005_getAWDLStatus
  \/ p005_getDNSConfig \/ p005_getPublicIP \/ p005_getVPNInfo
  \/ p005_getNetworkLatency \/ p005_getProxyStatus \/ p005_getRouteTable
  \/ p005_getHostsFile \/ p005_getNetworkTraffic

windows_GetSystemInfo ==
  \/ win_hostInfo \/ win_computerSystem \/ win_bios \/ win_processor
  \/ win_memory \/ win_diskDrives \/ win_uuid

GetDynamicInfo ==
  \/ win_diskUsage \/ win_memoryUsage \/ win_getBatteryInfo \/ win_getACAdapterInfo
  \/ win_getBluetoothInfo \/ win_getTemperatureInfo \/ win_getInstalledApps
  \/ win_getRunningApps \/ win_bootTime

\* The command-line program, from main to its exit.
Next ==
  \/ main_switch
  \/ darwin_static \/ GetDynamicSystemInfo \/ GetNetworkInfo \/ p005_GetNetworkInfo
  \/ GetNetworkInfo_return \/ GetSystemSoftwareInfo \/ darwin_GetSystemInfo_return
  \/ windows_GetSystemInfo
  \/ main_checkErr \/ printSystemInfo \/ main_save \/ main_return \/ main_readLine

Spec == Init /\ [][Next]_vars

\* The two dynamic collectors called on their own, on an empty report.
InitDyn ==
  /\ goos \in {"windows", "darwin"}
  /\ build = "part_007"
  /\ args = << >>
  /\ writable = TRUE
  /\ entry = IF goos = "darwin" THEN "GetDynamicSystemInfo" ELSE "GetDynamicInfo"
  /\ pc = IF goos = "darwin" THEN "getDiskUsage" ELSE "win_diskUsage"
  /\ info = ZeroInfo
  /\ Fresh /\ input = << >>

NextDyn == GetDynamicSystemInfo \/ GetDynamicInfo

SpecDyn == InitDyn /\ [][NextDyn]_vars

\* windows.GetAllSystemInfo called on its own.
InitAll ==
  /\ goos = "windows"
  /\ build = "part_007"
  /\ args = << >>
  /\ writable = TRUE
  /\ entry = "GetAllSystemInfo"
  /\ pc = "win_hostInfo"
  /\ info = ZeroInfo
  /\ Fresh /\ input = << >>

NextAll == windows_GetSystemInfo \/ win_GetNetworkInfo \/ GetDynamicInfo \/ all_merge

SpecAll == InitAll /\ [][NextAll]_vars

\* The exported collectors of the two packages called on their own: the
\* windows package is the stub of part_003 unless the process runs on Windows.
LibEntries ==
  {"windows.GetSystemInfo", "windows.GetAllSystemInfo", "windows.GetDynamicInfo",
   "darwin.GetSystemInfo"}

InitLib ==
  /\ goos \in {"windows", "darwin", "linux"}
  /\ build \in {"main.go", "part_007"}
  /\ args = << >>
  /\ writable = TRUE
  /\ entry \in LibEntries
  /\ entry = "darwin.GetSystemInfo" => goos = "darwin"
  /\ entry \in {"windows.GetAllSystemInfo", "windows.GetDynamicInfo"} => goos # "windows"
  /\ pc = IF entry = "darwin.GetSystemInfo" THEN "hostInfo"
          ELSE IF goos = "windows" THEN "win_hostInfo" ELSE "stub"
  /\ info = ZeroInfo
  /\ Fresh /\ input = << >>

NextLib ==
  \/ darwin_static \/ GetDynamicSystemInfo \/ GetNetworkInfo \/ p005_GetNetworkInfo
  \/ GetNetworkInfo_return \/ GetSystemSoftwareInfo \/ darwin_GetSystemInfo_return
  \/ windows_GetSystemInfo
  \/ stub_GetSystemInfo \/ stub_GetAllSystemInfo \/ stub_GetDynamicInfo

SpecLib == InitLib /\ [][NextLib]_vars

(***************************************************************************)
(* macOS getVPNInfo: unnamed/part_004 820-951, unnamed/part_005 487-621    *)
(* and internal/darwin/network_info.go 398-433                             *)
(***************************************************************************)
\* The fields of model.VPNInfo the three versions write.
ZeroVPN ==
  [IsConnected |-> FALSE, NodeName |-> "", Services |-> << >>, Interfaces |-> << >>,
   ActiveConnection |-> "", Provider |-> "", ConfigFile |-> ""]

\* The lines of `networksetup -listallnetworkservices` that name a VPN.
RECURSIVE vpnServices(_, _, _)
vpnServices(lines, k, both) ==
  IF k > Len(lines) THEN << >>
  ELSE (IF Contains(lines[k], "VPN") \/ (both /\ Contains(lines[k], "vpn"))
        THEN <<lines[k]>> ELSE << >>) \o vpnServices(lines, k + 1, both)

\* regexp `utun\d+: ` on the output of ifconfig: the matches, without ": ".
utunMatches(text) == IF text = "utun3: flags" THEN <<"utun3">> ELSE << >>

\* regexp `openvpn\s+--config\s+([^\s]+)` on the process list: the submatches.
openvpnMatches(text) ==
  IF text = "openvpn --config /etc/o.conf"
  THEN <<"openvpn --config /etc/o.conf", "/etc/o.conf">> ELSE << >>

\* The loop over the connections `scutil --nc list` prints (part_004 869-894).
RECURSIVE scutilLoop(_, _, _)
scutilLoop(conns, k, st) ==
  IF k > Len(conns) THEN st
  ELSE scutilLoop(conns, k + 1,
         IF Contains(conns[k].status, "Connected")
         THEN [vpn |-> [st.vpn EXCEPT !.IsConnected = TRUE,
                                      !.ActiveConnection = conns[k].name],
               fired |-> st.fired \cup {"scutil"}]
         ELSE st)

\* The four detections of part_004 844-945 (part_005 511-612), each applied
\* when its command succeeded.  `fired` records the detections that matched.
vpnDetect(in, vpnInfo) ==
  LET s0 == [vpn |-> vpnInfo, fired |-> {}]
      s1 == IF ~in.ifconfig.err /\ utunMatches(in.ifconfig.out) # << >>
            THEN [vpn |-> [s0.vpn EXCEPT !.IsConnected = TRUE,
                                         !.Interfaces = utunMatches(in.ifconfig.out)],
                  fired |-> {"utun"}]
            ELSE s0
      s2 == IF ~in.scutil.err THEN scutilLoop(in.scutil.conns, 1, s1) ELSE s1
      s3 == IF /\ ~in.anyconnect.err /\ ~Contains(in.anyconnect.out, "not found")
               /\ Contains(in.anyconnect.out, "state: Connected")
            THEN [vpn |-> [s2.vpn EXCEPT !.IsConnected = TRUE,
                                         !.Provider = "Cisco AnyConnect"],
                  fired |-> s2.fired \cup {"anyconnect"}]
            ELSE s2
      s4 == IF /\ ~in.ps.err /\ Contains(in.ps.out, "openvpn")
               /\ Len(openvpnMatches(in.ps.out)) > 1
            THEN [vpn |-> [s3.vpn EXCEPT !.IsConnected = TRUE, !.Provider = "OpenVPN",
                                         !.ConfigFile = openvpnMatches(in.ps.out)[2]],
                  fired |-> s3.fired \cup {"openvpn"}]
            ELSE s3
  IN s4

\* getVPNInfo of part_004: info.VPN after the call, the error returned and
\* the detections that matched.  info.VPN is the zero value before the call.
getVPNInfo_004(in) ==
  IF in.networksetup.err THEN [vpn |-> ZeroVPN, err |-> TRUE, fired |-> {}]
  ELSE LET d == vpnDetect(in, [ZeroVPN EXCEPT !.Services =
                                 vpnServices(in.networksetup.lines, 1, TRUE)])
       IN [vpn |-> d.vpn, err |-> FALSE, fired |-> d.fired]


\* part_005 614-616: vpnInfo.IsConnected = true and the fixed node name
\* ("APAC node" stands for the name in the source).
markConnected(vpn) == [vpn EXCEPT !.IsConnected = TRUE, !.NodeName = "APAC node"]

\* getVPNInfo of part_005.
getVPNInfo_005(in) ==
  IF in.networksetup.err THEN [vpn |-> ZeroVPN, err |-> TRUE, fired |-> {}]
  ELSE LET d == vpnDetect(in, [ZeroVPN EXCEPT !.Services =
                                 vpnServices(in.networksetup.lines, 1, TRUE)])
       IN [vpn |-> markConnected(d.vpn), err |-> FALSE, fired |-> d.fired]

\* getVPNInfo of network_info.go: only the utun check, and only when a VPN
\* service is listed.
getVPNInfo_net(in) ==
  IF in.networksetup.err THEN [vpn |-> ZeroVPN, err |-> TRUE, fired |-> {}]
  ELSE LET services == vpnServices(in.networksetup.lines, 1, FALSE)
           utun == ~in.ifconfig.err /\ Contains(in.ifconfig.out, "utun")
       IN IF Len(services) > 0
          THEN [vpn |-> [ZeroVPN EXCEPT !.Services = services, !.IsConnected = utun],
                err |-> FALSE, fired |-> IF utun THEN {"utun"} ELSE {}]
          ELSE [vpn |-> ZeroVPN, err |-> FALSE, fired |-> {}]

\* What the five commands of getVPNInfo may print.
VPNInputs ==
  [ version : {"part_004", "part_005", "network_info.go"},
    networksetup : { [err |-> TRUE, lines |-> << >>], [err |-> FALSE, lines |-> <<"Wi-Fi">>],
                     [err |-> FALSE, lines |-> <<"Wi-Fi", "Office VPN">>] },
    ifconfig : { [err |-> TRUE, out |-> ""], [err |-> FALSE, out |-> "en0: flags"],
                 [err |-> FALSE, out |-> "utun3: flags"] },
    scutil : { [err |-> TRUE, conns |-> << >>],
               [err |-> FALSE, conns |-> << [name |-> "Office", status |-> "Disconnected"] >>],
               [err |-> FALSE, conns |-> << [name |-> "Home", status |-> "Disconnected"],
                                            [name |-> "Office", status |-> "Connected"] >>] },
    anyconnect : { [err |-> TRUE, out |-> ""], [err |-> FALSE, out |-> "state: Disconnected"],
                   [err |-> FALSE, out |-> "state: Connected"] },
    ps : { [err |-> TRUE, out |-> ""], [err |-> FALSE, out |-> "openvpn --daemon"],
           [err |-> FALSE, out |-> "openvpn --config /etc/o.conf"] } ]

(***************************************************************************)
(* getPublicIP: internal/darwin/network_info.go 470-502 and the Windows    *)
(* version of unnamed/part_002 449-483                                     *)
(***************************************************************************)
\* json.Unmarshal(body, &result) with result a struct{IP string `json:"ip"`}.
decodeIP(body) ==
  CASE body = "{\"ip\":\"203.0.113.7\"}" -> [err |-> FALSE, ip |-> "203.0.113.7"]
    [] body = "{}" -> [err |-> FALSE, ip |-> ""]
    [] OTHER -> [err |-> TRUE, ip |-> ""]

\* strings.TrimSpace(s)
TrimSpace(s) ==
  CASE s = "203.0.113.7\n" -> "203.0.113.7"
    [] s = " TestNet" -> "TestNet"
    [] s = " -55" -> "-55"
    [] OTHER -> s

\* strings.Count(s, ".")
CountDots(s) ==
  CASE s = "203.0.113.7" -> 3
    [] s = "1.5" -> 1
    [] OTHER -> 0

\* getPublicIP of network_info.go on the response of its one request:
\* info.PublicIP after the call (empty before it), the error returned and
\* the requests made.
getPublicIP_darwin(resp) ==
  LET gets == <<"https://api.ipify.org?format=json">>
  IN IF resp.getErr THEN [PublicIP |-> "", err |-> TRUE, gets |-> gets]
     ELSE IF resp.readErr THEN [PublicIP |-> "", err |-> TRUE, gets |-> gets]
     ELSE IF decodeIP(resp.body).err THEN [PublicIP |-> "", err |-> TRUE, gets |-> gets]
     ELSE [PublicIP |-> decodeIP(resp.body).ip, err |-> FALSE, gets |-> gets]

\* The services the Windows version tries (part_002 455-459).
apis == <<"https://api.ipify.org", "https://ipinfo.io/ip", "https://api.ip.sb/ip">>

\* The loop `for _, api := range apis` from service k on, with the requests
\* made so far; resps[k] is the response of service k.
RECURSIVE apisLoop(_, _, _)
apisLoop(resps, k, gets) ==
  IF k > Len(apis) THEN [PublicIP |-> "", err |-> FALSE, gets |-> gets]
  ELSE LET r == resps[k]
           made == Append(gets, apis[k])
           ip == TrimSpace(r.body)
       IN IF r.getErr THEN apisLoop(resps, k + 1, made)
          ELSE IF r.status # 200 THEN apisLoop(resps, k + 1, made)
          ELSE IF r.readErr THEN apisLoop(resps, k + 1, made)
          ELSE IF CountDots(ip) = 3 THEN [PublicIP |-> ip, err |-> FALSE, gets |-> made]
          ELSE apisLoop(resps, k + 1, made)

\* getPublicIP of part_002, assigned to info.PublicIP at part_002 409.
getPublicIP_windows(resps) == apisLoop(resps, 1, << >>)

\* What a lookup service may answer.
Responses ==
  { [getErr |-> TRUE, status |-> 0, readErr |-> FALSE, body |-> ""],
    [getErr |-> FALSE, status |-> 200, readErr |-> TRUE, body |-> ""],
    [getErr |-> FALSE, status |-> 500, readErr |-> FALSE, body |-> "<html>"],
    [getErr |-> FALSE, status |-> 200, readErr |-> FALSE, body |-> "{}"],
    [getErr |-> FALSE, status |-> 200, readErr |-> FALSE, body |-> "203.0.113.7\n"],
    [getErr |-> FALSE, status |-> 200, readErr |-> FALSE,
     body |-> "{\"ip\":\"203.0.113.7\"}"] }

PublicIPInputs ==
  [version : {"network_info.go"}, resps : [1..1 -> Responses]]
    \cup [version : {"part_002"}, resps : [1..3 -> Responses]]

(***************************************************************************)
(* getNetworkTraffic: unnamed/part_005 878-942 (macOS) and                 *)
(* unnamed/part_002 794-841 (Windows)                                      *)
(***************************************************************************)
\* fmt.Sprintf("%.2f KB/s", float64(n) / 1024.0) for a whole number of bytes:
\* n / 1024 is exact in a float64, and %.2f rounds it to the nearest
\* hundredth, a tie to the even one.
FormatKBps(n) ==
  LET a == IF n < 0 THEN 0 - n ELSE n
      q == (a * 25) \div 256
      r == (a * 25) % 256
      h == IF r > 128 \/ (r = 128 /\ q % 2 = 1) THEN q + 1 ELSE q
      d == h % 100
  IN (IF n < 0 THEN "-" ELSE "") \o ToString(h \div 100) \o "."
       \o (IF d < 10 THEN "0" ELSE "") \o ToString(d) \o " KB/s"

\* strconv.ParseInt with its error dropped: 0 for a field that is no number.
ParseInt(field) == IF field.num THEN field.val ELSE 0

\* A parser that counts the received bytes only.
receivedOnly(row) == ParseInt(Elem(row, 6))

\* inBytes + outBytes of one line with at least 10 fields (part_005 935-937).
rowBytes(row) == ParseInt(Elem(row, 6)) + ParseInt(Elem(row, 9))

\* parseNetstatOutput (part_005 922-942): lines is the output split at the
\* line breaks, each line split into its fields; the first line is the header.
RECURSIVE netstatLoop(_, _)
netstatLoop(lines, i) ==
  IF ~(i < Len(lines)) THEN 0
  ELSE (IF Len(Elem(lines, i)) >= 10 THEN rowBytes(Elem(lines, i)) ELSE 0)
       + netstatLoop(lines, i + 1)

parseNetstatOutput(lines) == IF Len(lines) < 2 THEN 0 ELSE netstatLoop(lines, 1)

\* getNetworkTraffic of part_005 on the two outputs of netstat -I en0 -b.
getNetworkTraffic_005(output1, output2) ==
  IF output1.err \/ output2.err
  THEN [NetworkTraffic |-> "0 KB/s", ProcessTraffic |-> "0 KB/s", sampled |-> FALSE,
        rate |-> [wrap |-> 0, v |-> 0]]
  ELSE LET bytesPerSecond == parseNetstatOutput(output2.lines)
                               - parseNetstatOutput(output1.lines)
       IN [NetworkTraffic |-> FormatKBps(bytesPerSecond),
           ProcessTraffic |-> FormatKBps(bytesPerSecond), sampled |-> TRUE,
           rate |-> [wrap |-> 0, v |-> bytesPerSecond]]

\* The first counter with traffic (part_002 807-813), as a list of at most one.
RECURSIVE activeInterface(_, _)
activeInterface(counters, k) ==
  IF k > Len(counters) THEN << >>
  ELSE IF counters[k].BytesSent > 0 \/ counters[k].BytesRecv > 0 THEN <<counters[k]>>
  ELSE activeInterface(counters, k + 1)

\* x rounded to a multiple of step, a tie to the even multiple.
RoundTo(x, step) ==
  LET q == x \div step
      r == x % step
  IN step * (IF 2 * r > step \/ (2 * r = step /\ q % 2 = 1) THEN q + 1 ELSE q)

\* Numbers of part_002 830-834 are held as wrap * 2^64 + v.
\* a - b in uint64: below zero it wraps around to 2^64 + (a - b).
Uint64Sub(a, b) == [wrap |-> IF a < b THEN 1 ELSE 0, v |-> a - b]

\* float64(x) of a uint64: exact below 2^53; next to 2^64 the float64 values
\* are 2048 apart.
Float64(x) == IF x.wrap = 0 THEN x ELSE [wrap |-> 1, v |-> RoundTo(x.v, 2048)]

\* x + y in float64: the values from 2^64 on are 4096 apart.
FloatAdd(x, y) ==
  LET w == x.wrap + y.wrap
      v == x.v + y.v
  IN IF w = 0 THEN [wrap |-> 0, v |-> v]
     ELSE IF w = 1 /\ v < 0 THEN [wrap |-> 1, v |-> RoundTo(v, 2048)]
     ELSE [wrap |-> w, v |-> RoundTo(v, 4096)]

\* n written with eight digits.
Pad8(n) ==
  (IF n < 10 THEN "0000000" ELSE IF n < 100 THEN "000000" ELSE IF n < 1000 THEN "00000"
   ELSE IF n < 10000 THEN "0000" ELSE IF n < 100000 THEN "000"
   ELSE IF n < 1000000 THEN "00" ELSE IF n < 10000000 THEN "0" ELSE "") \o ToString(n)

\* fmt.Sprintf("%.2f KB/s", x / 1024): 2^64 / 1024 is 18014398509481984, and a
\* multiple of 2048 divided by 1024 is whole.
FormatKBpsWide(x) ==
  IF x.wrap = 0 THEN FormatKBps(x.v)
  ELSE IF x.wrap = 1 THEN "180143985" \o Pad8(9481984 + x.v \div 1024) \o ".00 KB/s"
  ELSE "360287970" \o Pad8(18963968 + x.v \div 1024) \o ".00 KB/s"

\* The loop over the second sample (part_002 828-838): the two differences are
\* taken in uint64, converted to float64 and added.
RECURSIVE trafficLoop(_, _, _)
trafficLoop(counters, k, active) ==
  IF k > Len(counters)
  THEN [NetworkTraffic |-> "0 KB/s", sampled |-> FALSE, rate |-> [wrap |-> 0, v |-> 0]]
  ELSE IF counters[k].Name = active.Name
  THEN LET sentDiff == Float64(Uint64Sub(counters[k].BytesSent, active.BytesSent))
           recvDiff == Float64(Uint64Sub(counters[k].BytesRecv, active.BytesRecv))
       IN [NetworkTraffic |-> FormatKBpsWide(FloatAdd(sentDiff, recvDiff)),
           sampled |-> TRUE, rate |-> FloatAdd(sentDiff, recvDiff)]
  ELSE trafficLoop(counters, k + 1, active)

\* getNetworkTraffic of part_002 on the two results of net.IOCounters(true).
getNetworkTraffic_002(first, second) ==
  IF first.err
  THEN [NetworkTraffic |-> "", sampled |-> FALSE, rate |-> [wrap |-> 0, v |-> 0]]
  ELSE IF activeInterface(first.counters, 1) = << >>
  THEN [NetworkTraffic |-> "0 KB/s", sampled |-> FALSE, rate |-> [wrap |-> 0, v |-> 0]]
  ELSE IF second.err
  THEN [NetworkTraffic |-> "", sampled |-> FALSE, rate |-> [wrap |-> 0, v |-> 0]]
  ELSE trafficLoop(second.counters, 1, activeInterface(first.counters, 1)[1])

\* Byte deltas of one second: none, the fixture of the specification, less
\* than a hundredth of a KB, ties of the rounding, and whole KBs.
TrafficDeltas ==
  { <<0, 0>>, <<10240, 5120>>, <<1, 0>>, <<128, 0>>, <<256, 128>>, <<1024, 1024>>,
    <<5, 5>>, <<1500, 700>> }

\* Counters at the first sample.
TrafficBases == { <<0, 0>>, <<1000, 2000>>, <<123456, 654321>> }

Num(n) == [num |-> TRUE, val |-> n]
Txt == [num |-> FALSE, val |-> 0]

\* A line of netstat -I en0 -b with its ten fields, and one without address.
netstatRow(ibytes, obytes) ==
  <<Txt, Num(1500), Txt, Txt, Num(10), Num(0), Num(ibytes), Num(20), Num(0), Num(obytes)>>
shortRow(ibytes, obytes) ==
  <<Txt, Num(1500), Txt, Num(10), Num(0), Num(ibytes), Num(20), Num(0), Num(obytes)>>
header == <<Txt, Txt, Txt, Txt, Txt, Txt, Txt, Txt, Txt, Txt>>

\* An output of netstat with the given counters, in one of four layouts.
netstatOutput(layout, ibytes, obytes) ==
  [err |-> FALSE,
   lines |-> CASE layout = "one row" -> <<header, netstatRow(ibytes, obytes)>>
               [] layout = "two rows" ->
                    <<header, netstatRow(ibytes, obytes), netstatRow(7, 9)>>
               [] layout = "short row" ->
                    <<header, shortRow(50, 60), netstatRow(ibytes, obytes)>>
               [] OTHER -> <<header, netstatRow(ibytes, obytes), << >> >>]

ioCounters(layout, sent, recv) ==
  [err |-> FALSE,
   counters |-> CASE layout = "one row" ->
                       << [Name |-> "Ethernet", BytesSent |-> sent, BytesRecv |-> recv] >>
                  [] OTHER ->
                       << [Name |-> "Loopback", BytesSent |-> 0, BytesRecv |-> 0],
                          [Name |-> "Ethernet", BytesSent |-> sent, BytesRecv |-> recv] >>]

\* Two samples one second apart, with the deltas between them, and runs in
\* which a sample could not be taken.
TrafficInputs ==
  { [version |-> "part_005", delta |-> d,
     first |-> netstatOutput(l, b[1], b[2]),
     second |-> netstatOutput(l, b[1] + d[1], b[2] + d[2])] :
    l \in {"one row", "two rows", "short row", "blank line"},
    b \in TrafficBases, d \in TrafficDeltas }
  \cup
  { [version |-> "part_002", delta |-> d,
     first |-> ioCounters(l, b[2], b[1]),
     second |-> ioCounters(l, b[2] + d[2], b[1] + d[1])] :
    l \in {"one row", "two rows"}, b \in TrafficBases \ {<<0, 0>>}, d \in TrafficDeltas }
  \cup
  { [version |-> v, delta |-> <<0, 0>>,
     first |-> [err |-> e1, lines |-> << >>, counters |-> << >>],
     second |-> [err |-> TRUE, lines |-> << >>, counters |-> << >>]] :
    v \in {"part_005", "part_002"}, e1 \in BOOLEAN }

\* Counters of the second sample after a reset: lower than the first ones.
TrafficResets == { <<4096, 2048>>, <<0, 700>>, <<1000, 0>>, <<123000, 654000>> }

\* Two samples with a counter reset between them: one counter or both are
\* lower in the second sample.
ResetInputs ==
  { [version |-> "part_005", which |-> w,
     first |-> netstatOutput(l, 123456, 654321),
     second |-> netstatOutput(l, IF w[1] THEN c[1] ELSE 123456 + c[1],
                                 IF w[2] THEN c[2] ELSE 654321 + c[2])] :
    l \in {"one row", "two rows"}, c \in TrafficResets,
    w \in {<<TRUE, TRUE>>, <<TRUE, FALSE>>, <<FALSE, TRUE>>} }
  \cup
  { [version |-> "part_002", which |-> w,
     first |-> ioCounters(l, 654321, 123456),
     second |-> ioCounters(l, IF w[2] THEN c[2] ELSE 654321 + c[2],
                              IF w[1] THEN c[1] ELSE 123456 + c[1])] :
    l \in {"one row", "two rows"}, c \in TrafficResets,
    w \in {<<TRUE, TRUE>>, <<TRUE, FALSE>>, <<FALSE, TRUE>>} }

(***************************************************************************)
(* macOS getWiFiInfo: unnamed/part_004 90-257 and                          *)
(* internal/darwin/network_info.go 90-175                                  *)
(***************************************************************************)
\* A line of `airport -I` is `key: value`, with or without blanks before the
\* key.  strings.Contains(line, pat) for the patterns of getWiFiInfo: " SSID: "
\* and " BSSID: " need a blank before the key, "SSID: " is also part of a
\* BSSID line.
lineContains(line, pat) ==
  CASE pat = " SSID: " -> line.indent /\ line.key = "SSID"
    [] pat = " BSSID: " -> line.indent /\ line.key = "BSSID"
    [] pat = "SSID: " -> line.key \in {"SSID", "BSSID"}
    [] pat = "BSSID: " -> line.key = "BSSID"
    [] OTHER -> pat = line.key \o ": "

\* strings.Split(line, sep): the text before and after the separator.
Split(line, sep) ==
  IF lineContains(line, sep) THEN <<"", line.value>> ELSE <<line.value>>

\* Whether strconv.Atoi accepts the text.
AtoiOk(s) == s \in {"0", "1", "2", "3", "4", "11", "80", "-55", "-60"}

\* The fields of model.WiFiInfo the claim is about.
ZeroWiFi ==
  [SSID |-> "", BSSID |-> "", RSSI |-> 0, SignalStrength |-> 0, IsConnected |-> FALSE]

\* The body of the scanner loop for one line (part_004 102-135,
\* network_info.go 103-131).  `setsRSSI` tells the versions apart: part_004
\* stores the number in RSSI and SignalStrength, network_info.go in
\* SignalStrength only.
wifiLine(w, line, setsRSSI) ==
  LET w1 == IF lineContains(line, " SSID: ") /\ Len(Split(line, "SSID: ")) > 1
            THEN [w EXCEPT !.SSID = TrimSpace(Split(line, "SSID: ")[2]),
                           !.IsConnected = TRUE]
            ELSE w
      w2 == IF lineContains(line, " BSSID: ") /\ Len(Split(line, "BSSID: ")) > 1
            THEN [w1 EXCEPT !.BSSID = TrimSpace(Split(line, "BSSID: ")[2])]
            ELSE w1
      rssi == TrimSpace(Split(line, "agrCtlRSSI: ")[Len(Split(line, "agrCtlRSSI: "))])
      w3 == IF /\ lineContains(line, "agrCtlRSSI: ")
               /\ Len(Split(line, "agrCtlRSSI: ")) > 1
               /\ AtoiOk(rssi)
            THEN [w2 EXCEPT !.SignalStrength = Atoi(rssi),
                            !.RSSI = IF setsRSSI THEN Atoi(rssi) ELSE @]
            ELSE w2
  IN w3

RECURSIVE wifiScan(_, _, _, _)
wifiScan(lines, k, w, setsRSSI) ==
  IF k > Len(lines) THEN w
  ELSE wifiScan(lines, k + 1, wifiLine(w, lines[k], setsRSSI), setsRSSI)

\* getWiFiInfo of part_004: info.WiFi after the call and the error returned.
getWiFiInfo_004(output) ==
  IF output.err THEN [wifi |-> ZeroWiFi, err |-> TRUE]
  ELSE [wifi |-> wifiScan(output.lines, 1, ZeroWiFi, TRUE), err |-> FALSE]

\* getWiFiInfo of network_info.go.
getWiFiInfo_net(output) ==
  IF output.err THEN [wifi |-> ZeroWiFi, err |-> TRUE]
  ELSE [wifi |-> wifiScan(output.lines, 1, ZeroWiFi, FALSE), err |-> FALSE]

\* Lines of the tool: the two of the fixture as the tool prints them
\* (right-aligned keys), the SSID line at the left margin, a BSSID line, and a
\* signal line without a number.
WiFiLines ==
  { [indent |-> TRUE, key |-> "SSID", value |-> "TestNet"],
    [indent |-> FALSE, key |-> "SSID", value |-> "TestNet"],
    [indent |-> TRUE, key |-> "BSSID", value |-> "a0:b1:c2:d3:e4:f5"],
    [indent |-> FALSE, key |-> "agrCtlRSSI", value |-> "-55"],
    [indent |-> FALSE, key |-> "agrCtlRSSI", value |-> "n/a"] }

MaxWiFiLines == 3

WiFiInputs ==
  [ version : {"part_004", "network_info.go"},
    output : { [err |-> TRUE, lines |-> << >>] }
             \cup { [err |-> FALSE, lines |-> l] :
                    l \in UNION { [1..n -> WiFiLines] : n \in 0..MaxWiFiLines } } ]

(***************************************************************************)
(* unnamed/part_005: getIPAndMacAddress (ifconfig -a)                      *)
(***************************************************************************)
\* The lines of `ifconfig -a`: the unindented first line of an interface
\* block (`en0: flags=...`), and the indented `inet `, `ether ` and other lines.
HeadLine(n) == [k |-> "head", v |-> n]
InetLine(a) == [k |-> "inet", v |-> a]
EtherLine(a) == [k |-> "ether", v |-> a]
OtherLine == [k |-> "other", v |-> ""]

\* The loop of part_005 251-291, from line k on.  st holds currentInterface,
\* foundIP, foundMac and the two fields written so far.
RECURSIVE ifconfigLoop(_, _, _)
ifconfigLoop(lines, k, st) ==
  IF k > Len(lines) THEN st
  ELSE LET line == lines[k]
           cur == IF line.k = "head" THEN line.v ELSE st.cur
           gate == cur = "en0" \/ (~st.foundIP /\ ~st.foundMac)
           ip == gate /\ line.k = "inet" /\ ~st.foundIP
           mac == gate /\ line.k = "ether" /\ ~st.foundMac
           st1 == [cur |-> cur,
                   foundIP |-> st.foundIP \/ ip,
                   foundMac |-> st.foundMac \/ mac,
                   IP |-> IF ip THEN line.v ELSE st.IP,
                   MacAddress |-> IF mac THEN line.v ELSE st.MacAddress]
       IN IF st1.foundIP /\ st1.foundMac /\ cur = "en0" THEN st1
          ELSE ifconfigLoop(lines, k + 1, st1)

\* getIPAndMacAddress on the output of a successful `ifconfig -a`
\* (part_005 239-303): the IP and MacAddress it leaves in the structure.
getIPAndMacAddress(lines) ==
  LET st == ifconfigLoop(lines, 1, [cur |-> "", foundIP |-> FALSE, foundMac |-> FALSE,
                                    IP |-> "", MacAddress |-> ""])
  IN [IP |-> IF st.foundIP THEN st.IP ELSE "172.22.23.5",
      MacAddress |-> IF st.foundMac THEN st.MacAddress ELSE "aa:bb:cc:dd:ee:ff"]

\* Interface blocks as ifconfig prints them.
IfconfigBlocks ==
  { <<HeadLine("lo0"), OtherLine, InetLine("127.0.0.1")>>,
    <<HeadLine("en0"), EtherLine("a4:83:e7:00:00:01"), InetLine("192.168.1.10")>>,
    <<HeadLine("en0"), EtherLine("a4:83:e7:00:00:01"), OtherLine>>,
    <<HeadLine("en0"), OtherLine>>,
    <<HeadLine("en1"), EtherLine("a4:83:e7:00:00:02"), InetLine("10.0.0.7")>>,
    <<HeadLine("bridge0"), EtherLine("36:00:00:00:00:03")>> }

MaxBlocks == 3

RECURSIVE Flatten(_)
Flatten(seqs) == IF seqs = << >> THEN << >> ELSE Head(seqs) \o Flatten(Tail(seqs))

\* The name of the interface of a block.
BlockName(b) == b[1].v

\* Outputs of up to MaxBlocks blocks, one block per interface.
IfconfigInputs ==
  { [blocks |-> bs] :
      bs \in { s \in UNION { [1..n -> IfconfigBlocks] : n \in 0..MaxBlocks } :
                 \A i, j \in DOMAIN s : i # j => BlockName(s[i]) # BlockName(s[j]) } }

(***************************************************************************)
(* The disk lists printSystemInfo of part_006 is given                     *)
(***************************************************************************)
\* Sizes in GB as the collectors store them (wmi.go 178-179, command.go 287).
DiskSizesGB == {0, 238, 476, 999, 1000, 1863}
MaxDisks == 2

DiskListInputs ==
  { [disks |-> [k \in DOMAIN sz |-> [SampleDisk EXCEPT !.Size = sz[k]]]] :
      sz \in UNION { [1..m -> DiskSizesGB] : m \in 0..MaxDisks } }

(***************************************************************************)
(* The renderers of unnamed/part_008 and unnamed/part_006                  *)
(***************************************************************************)
\* a / b and a % b on Go ints: a panic when b = 0.
DivPanics(b) == b = 0

\* part_008 147-151 and part_006 193-197: the remaining time of the battery.
Sixty == 60
batteryTime(i) ==
  IF i.Battery.IsPresent /\ i.Battery.TimeRemaining > 0
  THEN [lines |-> IF DivPanics(Sixty) THEN << >>
                  ELSE <<Line("time-remaining", "", "", i.Battery.TimeRemaining \div Sixty)>>,
        panic |-> DivPanics(Sixty)]
  ELSE [lines |-> << >>, panic |-> FALSE]

\* The loop condition of part_008 255: i < len(info.RunningApps) && i < 10.
runningAppsLoop(i, k) == k < Len(i.RunningApps) /\ k < 10

\* part_008 252-261: the running applications, indexed by the loop counter.
runningApps(i) ==
  IF Len(i.RunningApps) > 0
  THEN LET ks == {k \in 0..10 : \A j \in 0..k : runningAppsLoop(i, j)}
       IN [lines |-> [n \in 1..Cardinality({k \in ks : InRange(i.RunningApps, k)}) |->
                        Line("app", Elem(i.RunningApps, n - 1).Name, "", n - 1)],
           panic |-> \E k \in ks : ~InRange(i.RunningApps, k)]
  ELSE [lines |-> << >>, panic |-> FALSE]

\* The JSON block that ends each printSystemInfo (part_008 263-271,
\* part_006 391-399, part_007 377-385).
jsonBlock(i, argv) ==
  IF Len(argv) > 0 /\ Contains(argv[1], "--json")
  THEN IF MarshalIndent(i).err
       THEN [lines |-> << >>, fatal |-> TRUE]
       ELSE [lines |-> <<Line("JSON", "", "", 0)>>, fatal |-> FALSE]
  ELSE [lines |-> << >>, fatal |-> FALSE]

\* printSystemInfo of part_008 (79-272).
printSystemInfo_008(i, argv) ==
  LET bt == batteryTime(i)
      ra == runningApps(i)
      js == jsonBlock(i, argv)
      panic == bt.panic \/ ra.panic
  IN [lines |-> <<Line("basic", i.Hostname, i.Model, i.CPU.Cores)>>
                  \o [n \in 1..Len(i.Disks) |-> Line("disk", i.Disks[n].Name, "", n)]
                  \o bt.lines \o ra.lines \o (IF panic THEN << >> ELSE js.lines),
      panic |-> panic,
      fatal |-> ~panic /\ js.fatal]

\* The guard of part_006 372: len(info.Bluetooth.ConnectedDevices) > 0.
hasConnectedDevices(i) == Len(i.Bluetooth.ConnectedDevices) > 0

\* part_006 370-377: the first connected bluetooth device.
connectedDevice(i) ==
  IF i.Bluetooth.IsAvailable
  THEN IF hasConnectedDevices(i)
       THEN IF InRange(i.Bluetooth.ConnectedDevices, 0)
            THEN [lines |-> <<Line("bluetooth-device",
                                   Elem(i.Bluetooth.ConnectedDevices, 0).Name, "", 0)>>,
                  panic |-> FALSE]
            ELSE [lines |-> << >>, panic |-> TRUE]
       ELSE [lines |-> <<Line("bluetooth-device", "none", "", 0)>>, panic |-> FALSE]
  ELSE [lines |-> << >>, panic |-> FALSE]

\* 1024 * 1024 * 1024 (part_006 107, 143).
GiB == 1073741824

\* A uint64 count of bytes, held as g * GiB + b with b below GiB.
AsBytes(n) == [g |-> n \div GiB, b |-> n % GiB]
FromGB(n) == [g |-> n, b |-> 0]
NoBytes == [g |-> 0, b |-> 0]
Greater(x, y) == x.g > y.g \/ (x.g = y.g /\ x.b > y.b)

\* part_006 100-114: the largest disk size in bytes; a size under 1000 is
\* taken as GB and converted, any other size is taken as bytes.
RECURSIVE maxDiskSize(_, _)
maxDiskSize(disks, m) ==
  IF disks = << >> THEN m
  ELSE LET size == Head(disks).Size
           bytes == IF size < 1000 /\ size > 0 THEN FromGB(size) ELSE AsBytes(size)
       IN maxDiskSize(Tail(disks), IF Greater(bytes, m) THEN bytes ELSE m)

\* part_006 119-138: the size of the last partition mounted on "/", or else
\* of the largest partition.  st holds the three variables of the loop.
RECURSIVE partitionSize(_, _)
partitionSize(parts, st) ==
  IF parts = << >>
  THEN IF st.hasRootPartition THEN st.rootPartitionSize ELSE st.maxPartitionSize
  ELSE LET total == AsBytes(Head(parts).Total)
           isRoot == Head(parts).MountPoint = "/"
       IN partitionSize(Tail(parts),
            [rootPartitionSize |-> IF isRoot THEN total ELSE st.rootPartitionSize,
             hasRootPartition |-> st.hasRootPartition \/ isRoot,
             maxPartitionSize |-> IF Greater(total, st.maxPartitionSize) THEN total
                                  ELSE st.maxPartitionSize])

\* part_006 100-139: the capacity shown, in bytes.
diskCapacity(i) ==
  LET m == maxDiskSize(i.Disks, NoBytes)
  IN IF m = NoBytes /\ Len(i.DiskUsage) > 0
     THEN partitionSize(i.DiskUsage, [rootPartitionSize |-> NoBytes,
                                      hasRootPartition |-> FALSE,
                                      maxPartitionSize |-> NoBytes])
     ELSE m

\* part_006 143-144: float64(maxDiskSize) / GiB printed with %.2f, as a count
\* of hundredths of a GB; an exact tie rounds to the even digit.
GBx100(x) ==
  LET scaled == (x.b \div 1024) * 100 + ((x.b % 1024) * 100) \div 1024
      low == ((x.b % 1024) * 100) % 1024
      q == scaled \div 1048576
      r == scaled % 1048576
      up == r > 524288 \/ (r = 524288 /\ low > 0) \/ (r = 524288 /\ low = 0 /\ q % 2 = 1)
  IN x.g * 100 + q + (IF up THEN 1 ELSE 0)

\* printSystemInfo of part_006 (82-399).
printSystemInfo_006(i, argv) ==
  LET bt == batteryTime(i)
      cd == connectedDevice(i)
      js == jsonBlock(i, argv)
      panic == bt.panic \/ cd.panic
      capacity == diskCapacity(i)
  IN [lines |-> <<Line("basic", i.Hostname, i.Model, i.CPU.Cores)>>
                  \o (IF capacity # NoBytes
                      THEN <<Line("disk-capacity", "", "", GBx100(capacity))>>
                      ELSE <<Line("disk-capacity", "unknown", "", 0)>>)
                  \o bt.lines \o cd.lines \o (IF panic THEN << >> ELSE js.lines),
      panic |-> panic,
      fatal |-> ~panic /\ js.fatal]

\* Reports to render: the zero report, and reports with each optional
\* section present or absent.
RenderReports ==
  { [ZeroInfo EXCEPT !.Disks = IF d THEN <<SampleDisk>> ELSE << >>,
                     !.Battery = IF b THEN SampleBattery ELSE Zero("BatteryInfo"),
                     !.RunningApps = IF r THEN <<SampleProcess, SampleProcess>> ELSE << >>,
                     !.Bluetooth.IsAvailable = a,
                     !.Bluetooth.ConnectedDevices = IF c THEN <<SampleDevice>> ELSE << >>,
                     !.Temperature = IF t THEN <<OverflowSensor>> ELSE << >>] :
      d \in BOOLEAN, b \in BOOLEAN, r \in BOOLEAN, a \in BOOLEAN, c \in BOOLEAN,
      t \in BOOLEAN }

InitRender ==
  /\ goos \in {"windows", "darwin"}
  /\ build = "main.go"
  /\ args \in {<< >>, <<"--json">>}
  /\ writable = TRUE
  /\ entry \in {"formatSystemInfo", "printSystemInfo_008", "printSystemInfo_006"}
  /\ pc = "render"
  /\ info \in RenderReports
  /\ Fresh /\ input = << >>

\* One call of a renderer on the report.
Render(result) ==
  /\ pc = "render" /\ pc' = "rendered"
  /\ rendering' = result
  /\ UNCHANGED <<env, collected, ghost, phases, logs, out, jsonOutput, decoded, input, ret>>

render_formatSystemInfo ==
  /\ entry = "formatSystemInfo"
  /\ Render(formatSystemInfo(info, goos, build))

render_printSystemInfo_008 ==
  /\ entry = "printSystemInfo_008"
  /\ Render(printSystemInfo_008(info, args))

render_printSystemInfo_006 ==
  /\ entry = "printSystemInfo_006"
  /\ Render(printSystemInfo_006(info, args))

NextRender ==
  render_formatSystemInfo \/ render_printSystemInfo_008 \/ render_printSystemInfo_006

SpecRender == InitRender /\ [][NextRender]_vars

(***************************************************************************)
(* unnamed/part_004: getNetworkLatency (ping and mtr)                      *)
(***************************************************************************)
\* The targets pinged, in order (part_004 707-714).
latencyTargets ==
  << [Name |-> "Google DNS", Host |-> "8.8.8.8"],
     [Name |-> "Cloudflare DNS", Host |-> "1.1.1.1"],
     [Name |-> "Baidu", Host |-> "www.baidu.com"] >>

\* A loop that gives up at the first ping that fails.
stopsAtFailure(res) == res.err

\* part_004 719-722: `continue` after a failed ping; the loop never stops early.
stopsLoop(res) == FALSE

\* part_004 725-755: the entry of one target from the output of its ping.
\* summary holds the four submatches of `min/avg/max/stddev = ...`, loss the
\* submatch of `(\d+)% packet loss`, or "" where it does not match.
targetEntry(target, res) ==
  [TargetName |-> target.Name, TargetHost |-> target.Host,
   MinLatency |-> ParseFloat(res.summary[1]).f,
   AvgLatency |-> ParseFloat(res.summary[2]).f,
   MaxLatency |-> ParseFloat(res.summary[3]).f,
   StdDev |-> ParseFloat(res.summary[4]).f,
   PacketLoss |-> IF res.loss # "" THEN ParseFloat(res.loss).f ELSE "0",
   Jitter |-> ParseFloat(res.summary[4]).f]

\* The loop over the targets (part_004 716-756) from target k on: acc holds
\* latencyInfo.Targets, the hosts pinged and the hosts whose error was logged.
RECURSIVE pingLoop(_, _, _)
pingLoop(pings, k, acc) ==
  IF k > Len(latencyTargets) THEN acc
  ELSE LET target == latencyTargets[k]
           res == pings[k]
           pinged == Append(acc.pinged, target.Host)
       IN IF res.err
          THEN IF stopsLoop(res)
               THEN [acc EXCEPT !.pinged = pinged, !.logged = Append(@, target.Host)]
               ELSE pingLoop(pings, k + 1,
                             [acc EXCEPT !.pinged = pinged, !.logged = Append(@, target.Host)])
          ELSE IF Len(res.summary) = 4
          THEN pingLoop(pings, k + 1,
                        [acc EXCEPT !.pinged = pinged,
                                    !.Targets = Append(@, targetEntry(target, res))])
          ELSE pingLoop(pings, k + 1, [acc EXCEPT !.pinged = pinged])

\* The loop over the lines of the mtr report after its two title lines
\* (part_004 766-802): a line of fewer than 10 fields is skipped.
RECURSIVE mtrHops(_)
mtrHops(lines) ==
  IF lines = << >> THEN << >>
  ELSE LET fields == Head(lines)
       IN IF Len(fields) < 10 THEN mtrHops(Tail(lines))
          ELSE <<[HopNum |-> Atoi(fields[1]), Host |-> fields[2],
                  SentPackets |-> Atoi(fields[4]),
                  AvgLatency |-> ParseFloat(fields[6]).f]>> \o mtrHops(Tail(lines))

\* getNetworkLatency of part_004 (699-817) on the results of the three pings
\* and of mtr: info.Latency, and the hosts pinged and logged.
getNetworkLatency_004(pings, mtr) ==
  LET acc == pingLoop(pings, 1, [Targets |-> << >>, pinged |-> << >>, logged |-> << >>])
      body == IF Len(mtr.lines) > 2 THEN SubSeq(mtr.lines, 3, Len(mtr.lines)) ELSE << >>
  IN [Latency |-> [Targets |-> acc.Targets,
                   NetworkHops |-> IF ~mtr.err THEN mtrHops(body) ELSE << >>],
      pinged |-> acc.pinged,
      logged |-> acc.logged,
      err |-> FALSE]

\* What one ping may give: an error, a summary, or an output without the
\* summary line (all packets lost).
PingResults ==
  { [err |-> TRUE, summary |-> << >>, loss |-> ""],
    [err |-> FALSE, summary |-> <<"5", "12.3", "36.5", "5">>, loss |-> "0"],
    [err |-> FALSE, summary |-> << >>, loss |-> "100"] }

\* Lines of an mtr report as fields: the two title lines, a hop line of nine
\* fields as mtr -r prints it, and a hop line of ten fields.
mtrTitle == <<"Start:", "2024">>
mtrHop9 == <<"1.|--", "192.168.1.1", "0.0%", "5", "5", "12.3", "5", "36.5", "5">>
mtrHop10 == <<"1", "192.168.1.1", "0.0%", "5", "5", "12.3", "5", "36.5", "5", "0">>

MtrResults ==
  { [err |-> TRUE, lines |-> << >>],
    [err |-> FALSE, lines |-> <<mtrTitle, mtrTitle>>],
    [err |-> FALSE, lines |-> <<mtrTitle, mtrTitle, mtrHop9>>],
    [err |-> FALSE, lines |-> <<mtrTitle, mtrTitle, mtrHop10, mtrHop9, mtrHop10>>] }

LatencyInputs == [pings : [1..3 -> PingResults], mtr : MtrResults]

(***************************************************************************)
(* Loops that range over a Go map: unnamed/part_004 346-351 and 686-693,   *)
(* unnamed/part_002 697-711, internal/windows/wmi.go 224-263               *)
(***************************************************************************)
\* `for k, v := range m`: the runtime visits the keys in an order it picks
\* anew for every loop; the orders of the keys of m.
mapRange(m) ==
  { p \in [1..Cardinality(DOMAIN m) -> DOMAIN m] :
      \A i, j \in DOMAIN p : p[i] = p[j] => i = j }

\* part_004 346-350 and 686-690: the values of the map appended in the order
\* of the loop; the lists the loop can build.
rangeValues(m) == { [k \in DOMAIN p |-> m[p[k]]] : p \in mapRange(m) }

\* part_002 689-696.
phyModeMap ==
  [k \in {"802.11n", "802.11ac", "802.11ax", "802.11a", "802.11g", "802.11b"} |-> k]

\* Three of the ten entries of modelMap (wmi.go 236-247).
modelMap ==
  [k \in {"Surface Pro 7", "XPS 15 9500", "ThinkPad X1 Carbon"} |->
     CASE k = "Surface Pro 7" -> "Microsoft Surface Pro 7"
       [] k = "XPS 15 9500" -> "Dell XPS 15 9500"
       [] OTHER -> "Lenovo ThinkPad X1 Carbon"]

\* The loops of part_002 698-703 and wmi.go 255-259 in the order p: the value
\* of the first key that s contains, as a list of at most one.
RECURSIVE firstContained(_, _, _, _)
firstContained(m, p, k, s) ==
  IF k > Len(p) THEN << >>
  ELSE IF Contains(s, p[k]) THEN <<m[p[k]]>>
  ELSE firstContained(m, p, k + 1, s)

\* part_002 698-708: the values wifiInfo.PHYMode can take for a radio type.
PHYMode(radioType) ==
  { LET hit == firstContained(phyModeMap, p, 1, radioType)
    IN IF hit # << >> THEN hit[1] ELSE radioType : p \in mapRange(phyModeMap) }

\* getMarketingModelName (wmi.go 224-263): the names it can return, productInfo
\* being the result of the Win32_ComputerSystemProduct query.
getMarketingModelName(modelID, productInfo) ==
  IF ~productInfo.err /\ Len(productInfo.rows) > 0 /\ productInfo.rows[1].Name # ""
  THEN {productInfo.rows[1].Name}
  ELSE IF modelID \in DOMAIN modelMap THEN {modelMap[modelID]}
  ELSE { LET hit == firstContained(modelMap, p, 1, modelID)
         IN IF hit # << >> THEN hit[1] ELSE modelID : p \in mapRange(modelMap) }

\* The interfaces parsed from ifconfig, by name (part_004 269-344).
parsedInterface(n) ==
  [Name |-> n, IP |-> IF n = "en0" THEN "192.168.1.10" ELSE "10.0.0.7",
   MacAddress |-> IF n = "en0" THEN "a4:83:e7:00:00:01" ELSE "a4:83:e7:00:00:02"]

\* The processes parsed from lsof and nettop, by PID (part_004 619-683).
parsedProcess(pid) ==
  [PID |-> Atoi(pid), Name |-> IF pid = "1" THEN "launchd" ELSE "Safari",
   BytesIn |-> 11, BytesOut |-> 80]

\* What the commands of one run return, as the collectors have parsed it.
MapRangeInputs ==
  [interfaces : { [n \in ns |-> parsedInterface(n)] : ns \in {{"en0"}, {"en0", "en1"}} },
   processTraffic : { [n \in ns |-> parsedProcess(n)] : ns \in {{"1"}, {"1", "2"}} },
   radioType : {"802.11n", "802.11ac"},
   modelID : {"ThinkPad X1 Carbon", "ThinkPad X1 Carbon Gen 9", "20XW"},
   productInfo : {WMIFail, WMIOk(<<[Name |-> "20XWCTO1WW"]>>)}]

\* The parts of the report these loops can build from one run's outputs.
Collected(in) ==
  [Interfaces : rangeValues(in.interfaces),
   ProcessTraffic : rangeValues(in.processTraffic),
   PHYMode : PHYMode(in.radioType),
   Model : getMarketingModelName(in.modelID, in.productInfo)]

(***************************************************************************)
(* The probes called on their own, each on what it reads from the system   *)
(***************************************************************************)
probeOthers ==
  <<env, collected, ghost, phases, logs, out, jsonOutput, decoded, rendering, input>>

\* What each probe may read.
ProbeInputs(fn) ==
  CASE fn = "windows.getTemperatureInfo" ->
         [ohm : OhmResults, wmi : WmiResults, cpu : CpuResults]
    [] fn = "darwin.getVPNInfo" -> VPNInputs
    [] fn = "getPublicIP" -> PublicIPInputs
    [] fn = "windows.getBatteryInfo" -> BatteryInputs
    [] fn = "getNetworkTraffic" -> TrafficInputs
    [] fn = "getNetworkTraffic after a counter reset" -> ResetInputs
    [] fn = "darwin.getWiFiInfo" -> WiFiInputs
    [] fn = "darwin.getIPAndMacAddress" -> IfconfigInputs
    [] fn = "printSystemInfo_006" -> DiskListInputs
    [] fn = "darwin.getNetworkLatency" -> LatencyInputs
    [] fn = "range over a map" -> MapRangeInputs

ProbeEntries ==
  {"windows.getTemperatureInfo", "darwin.getVPNInfo", "getPublicIP",
   "windows.getBatteryInfo", "getNetworkTraffic",
   "getNetworkTraffic after a counter reset", "darwin.getWiFiInfo",
   "darwin.getIPAndMacAddress",
   "printSystemInfo_006",
   "darwin.getNetworkLatency",
   "range over a map"}

InitProbe ==
  /\ entry \in ProbeEntries
  /\ goos = (IF entry \in {"windows.getTemperatureInfo", "windows.getBatteryInfo"}
             THEN "windows" ELSE "darwin")
  /\ build = "part_007"
  /\ args = << >>
  /\ writable = TRUE
  /\ pc = "probe"
  /\ info = ZeroInfo
  /\ Fresh
  /\ input \in ProbeInputs(entry)

probe_getTemperatureInfo ==
  /\ pc = "probe" /\ entry = "windows.getTemperatureInfo" /\ pc' = "probed"
  /\ ret' = getTemperatureInfo_windows(input.ohm, input.wmi, input.cpu)
  /\ UNCHANGED probeOthers

\* getVPNInfo in the version the input names.
probe_getVPNInfo ==
  /\ pc = "probe" /\ entry = "darwin.getVPNInfo" /\ pc' = "probed"
  /\ ret' = CASE input.version = "part_004" -> getVPNInfo_004(input)
              [] input.version = "part_005" -> getVPNInfo_005(input)
              [] OTHER -> getVPNInfo_net(input)
  /\ UNCHANGED probeOthers

\* getPublicIP in the version the input names.
probe_getPublicIP ==
  /\ pc = "probe" /\ entry = "getPublicIP" /\ pc' = "probed"
  /\ ret' = IF input.version = "part_002" THEN getPublicIP_windows(input.resps)
            ELSE getPublicIP_darwin(input.resps[1])
  /\ UNCHANGED probeOthers

probe_getBatteryInfo ==
  /\ pc = "probe" /\ entry = "windows.getBatteryInfo" /\ pc' = "probed"
  /\ ret' = getBatteryInfo_windows(input.wmi, input.ps)
  /\ UNCHANGED probeOthers

\* getNetworkTraffic in the version the input names.
probe_getNetworkTraffic ==
  /\ pc = "probe" /\ pc' = "probed"
  /\ entry \in {"getNetworkTraffic", "getNetworkTraffic after a counter reset"}
  /\ ret' = IF input.version = "part_005"
            THEN getNetworkTraffic_005(input.first, input.second)
            ELSE getNetworkTraffic_002(input.first, input.second)
  /\ UNCHANGED probeOthers

\* getWiFiInfo in the version the input names.
probe_getWiFiInfo ==
  /\ pc = "probe" /\ entry = "darwin.getWiFiInfo" /\ pc' = "probed"
  /\ ret' = IF input.version = "part_004" THEN getWiFiInfo_004(input.output)
            ELSE getWiFiInfo_net(input.output)
  /\ UNCHANGED probeOthers

probe_getIPAndMacAddress ==
  /\ pc = "probe" /\ entry = "darwin.getIPAndMacAddress" /\ pc' = "probed"
  /\ ret' = getIPAndMacAddress(Flatten(input.blocks))
  /\ UNCHANGED probeOthers

probe_printSystemInfo_006 ==
  /\ pc = "probe" /\ entry = "printSystemInfo_006" /\ pc' = "probed"
  /\ ret' = printSystemInfo_006([ZeroInfo EXCEPT !.Disks = input.disks], << >>)
  /\ UNCHANGED probeOthers

probe_getNetworkLatency ==
  /\ pc = "probe" /\ entry = "darwin.getNetworkLatency" /\ pc' = "probed"
  /\ ret' = getNetworkLatency_004(input.pings, input.mtr)
  /\ UNCHANGED probeOthers

\* One run of the four loops on the outputs of the commands.
probe_mapRange ==
  /\ pc = "probe" /\ entry = "range over a map" /\ pc' = "probed"
  /\ ret' \in Collected(input)
  /\ UNCHANGED probeOthers

NextProbe ==
  \/ probe_getTemperatureInfo
  \/ probe_getBatteryInfo
  \/ probe_getVPNInfo
  \/ probe_getPublicIP
  \/ probe_getNetworkTraffic
  \/ probe_getWiFiInfo
  \/ probe_getIPAndMacAddress
  \/ probe_printSystemInfo_006
  \/ probe_getNetworkLatency
  \/ probe_mapRange

SpecProbe == InitProbe /\ [][NextProbe]_vars

(***************************************************************************)
(* SpecJSON: a report is rendered to JSON and the JSON is parsed back      *)
(***************************************************************************)
\* Populated (and unpopulated) reports.
Reports ==
  { [ZeroInfo EXCEPT !.Hostname = h, !.Temperature = t, !.Disks = d, !.Battery = b,
                     !.Network = [@ EXCEPT !.Interfaces = ifs, !.DNSServers = dns,
                                           !.WiFi = [@ EXCEPT !.SSID = ssid]]] :
      h \in {"", "mbp.local", "host<ff>"},
      t \in {<< >>, <<SampleSensor>>, <<OverflowSensor>>},
      d \in {<< >>, <<SampleDisk>>},
      b \in {Zero("BatteryInfo"), SampleBattery},
      ifs \in {<< >>, <<SampleInterface>>, <<SampleInterface, SecondInterface>>},
      dns \in {<< >>, <<"8.8.8.8", "1.1.1.1">>},
      ssid \in {"", "office", "ssid<ff>"} }

InitJSON ==
  /\ goos = "darwin" /\ build = "part_007" /\ args = <<"--json">> /\ writable = TRUE
  /\ entry = "json.MarshalIndent"
  /\ pc = "marshal"
  /\ info \in Reports
  /\ Fresh /\ input = << >>

\* jsonOutput, err := json.MarshalIndent(info, "", "  ")
JSONMarshal ==
  /\ pc = "marshal"
  /\ jsonOutput' = MarshalIndent(info)
  /\ pc' = IF jsonOutput'.err THEN "json_done" ELSE "unmarshal"
  /\ UNCHANGED <<env, collected, ghost, phases, logs, out, decoded, rendering, input, ret>>

\* json.Unmarshal(jsonOutput, &decoded)
JSONUnmarshal ==
  /\ pc = "unmarshal"
  /\ decoded' = Unmarshal(jsonOutput.doc)
  /\ pc' = "json_done"
  /\ UNCHANGED <<env, collected, ghost, phases, logs, out, jsonOutput, rendering, input, ret>>

NextJSON == JSONMarshal \/ JSONUnmarshal

SpecJSON == InitJSON /\ [][NextJSON]_vars

Supported == goos \in {"windows", "darwin"}

\* The report fields a macOS sub-collector owns are at their zero value.
\* F is the set of sub-collectors that failed: two of them fill the model name
\* and two the interface list, so what one leaves depends on the other.
OwnedZero(c, i, F) ==
  CASE c = "host.Info" -> i.Hostname = "" /\ i.OS = ""
    [] c = "hw.model" -> i.ModelID = "" /\ i.Model # "Mac14,9"
    [] c = "SPHardwareDataType" -> i.ModelID = "" /\ i.Model # "MacBook Pro"
    [] c = "serial number" -> i.SerialNumber = ""
    [] c = "cpu" -> i.CPU = Zero("CPUInfo")
    [] c = "memory" -> i.Memory = Zero("MemoryInfo")
    [] c = "memory type" -> i.Memory.Type = ""
    [] c = "disks" -> i.Disks = << >>
    [] c = "uuid" -> i.UUID = ""
    [] c = "getDiskUsage" -> i.DiskUsage = << >>
    [] c = "getMemoryUsage" -> i.MemoryUsage = Zero("MemoryUsageInfo")
    [] c = "getBatteryInfo" -> i.Battery = Zero("BatteryInfo")
    [] c = "getACAdapterInfo" -> i.ACAdapter = Zero("ACAdapterInfo")
    [] c = "getBluetoothInfo" -> i.Bluetooth = Zero("BluetoothInfo")
    [] c \in {"getTemperatureInfo", "temperature tools"} -> i.Temperature = << >>
    [] c = "getWiFiInfo" -> i.Network.WiFi = Zero("WiFiInfo")
    [] c \in {"getIPAndMACAddresses", "getNetworkInterfaces"} ->
         Len(i.Network.Interfaces)
           <= Cardinality({"getIPAndMACAddresses", "getNetworkInterfaces"} \ F)
    [] c = "getAWDLStatus" -> ~i.Network.AWDLEnabled /\ i.Network.AWDLStatus = ""
    [] c = "getNetworkTraffic" ->
         \A k \in 1..Len(i.Network.Interfaces) :
           i.Network.Interfaces[k].InBytes = 0 /\ i.Network.Interfaces[k].OutBytes = 0
    [] c = "getNetworkLatency" -> i.Network.AvgLatency = "0"
    [] c = "getVPNInfo" -> i.Network.VPN = Zero("VPNInfo")
    [] c = "getDNSConfig" -> i.Network.DNSServers = << >>
    [] c = "getPublicIP" -> i.Network.PublicIP = ""
    [] c = "getProxyStatus" -> i.Network.ProxyInfo = Zero("ProxyInfo")
    [] c = "GetSystemSoftwareInfo" ->
         i.SystemVersion = "" /\ i.InstalledApps = << >> /\ i.RunningApps = << >>
    [] OTHER -> TRUE

\* C1: when darwin.GetSystemInfo (with GetNetworkInfo of network_info.go) has
\* returned, its error is nil and every field owned by a sub-collector whose
\* commands failed holds its zero value.
C1_FailedCollectorsLeaveZero ==
  (goos = "darwin" /\ build = "main.go" /\ pc = "collected") =>
    /\ ~darwin_GetSystemInfo_err
    /\ \A c \in failed : OwnedZero(c, info, failed)

\* C3: the process exits with a non-zero status only when the operating
\* system is unsupported or the --save file cannot be written.
C3_NonZeroExitOnlyForOSOrSave ==
  (pc = "exited" /\ exitCode # 0) => (~Supported \/ (wantsSave /\ ~writable))

\* C4: on a supported operating system the report handed to the renderer was
\* built by the static, then the dynamic, then the network collector.
C4_RenderedAfterAllCollectors ==
  (Supported /\ pc = "print") => phases = <<"static", "dynamic", "network">>

\* C5: a --save run with a writable path leaves a file holding JSON that
\* decodes to the report.
C5_SavedFileIsJSONOfReport ==
  (Supported /\ wantsSave /\ writable /\ pc = "exited") =>
    /\ file.written
    /\ file.format = "json"
    /\ Unmarshal(file.body) = info

\* C6: when the first argument is --save and the path cannot be written, the
\* process exits with a non-zero status and never logs that the information
\* was saved; when it reaches the --save block (a supported operating system)
\* it logs the write error.
C6_UnwritableSaveFails ==
  /\ (wantsSave /\ ~writable) => "System information saved" \notin logs
  /\ (wantsSave /\ ~writable /\ pc = "exited") =>
       /\ exitCode # 0
       /\ Supported => "Error writing to file" \in logs

C6_Witness ==
  /\ pc = "exited" /\ goos = "darwin" /\ args = <<"--save", "out.json">> /\ ~writable
  /\ exitCode = 1 /\ "Error writing to file" \in logs /\ ~file.written

\* The text sections of printSystemInfo are on standard output.
TextPrinted ==
  \E k \in 1..Len(stdout) : SubSeq(stdout, k, k + Len(TextSections) - 1) = TextSections

\* C7: once printSystemInfo (part_007) has printed, the JSON dump follows the
\* last text section exactly when the first argument contains --json.
C7_JSONAfterTextIffFlag ==
  (build = "part_007" /\ TextPrinted) =>
    IF wantsJSON
    THEN /\ ~jsonOutput.err
         /\ \E k \in 1..Len(stdout) :
              /\ stdout[k] = "JSON"
              /\ k > Len(TextSections)
              /\ SubSeq(stdout, k - Len(TextSections), k - 1) = TextSections
    ELSE \A k \in 1..Len(stdout) : stdout[k] # "JSON"

\* The fields a sub-probe of part_005 owns are at their zero value.
p005_OwnedZero(c, net) ==
  CASE c = "p005_getWiFiInfo" -> net.WiFi = Zero("WiFiInfo")
    [] c = "p005_getIPAndMacAddress" -> net.IP = "" /\ net.MacAddress = ""
    [] c = "p005_getAWDLStatus" -> net.AWDLStatus = "" /\ ~net.AWDLEnabled
    [] c = "p005_getDNSConfig" -> net.DNSServers = << >> /\ net.DNS.Servers = << >>
    [] c = "p005_getPublicIP" -> net.PublicIP = ""
    [] c = "p005_getVPNInfo" -> net.VPN = Zero("VPNInfo")
    [] c = "p005_getNetworkLatency" -> net.Latency = Zero("LatencyInfo")
    [] c = "p005_getProxyStatus" -> net.ProxyInfo = Zero("ProxyInfo")
    [] c = "p005_getRouteTable" -> net.RouteTable = << >>
    [] c = "p005_getHostsFile" -> net.DNS.HostEntries = << >>
    [] c = "p005_getNetworkTraffic" -> net.NetworkTraffic = "" /\ net.ProcessTraffic = ""
    [] OTHER -> TRUE

\* C10: after GetNetworkInfo of part_005, every field owned by a sub-probe
\* whose command failed is empty.
C10_FailedProbesLeaveEmpty ==
  (goos = "darwin" /\ build = "part_007" /\ pc = "GetSystemSoftwareInfo") =>
    \A c \in failed : p005_OwnedZero(c, info.Network)

(***************************************************************************)
(* Properties of the dynamic collectors (SpecDyn)                          *)
(***************************************************************************)
\* The order of the sub-collections in the source.
DarwinDynamicOrder ==
  <<"getDiskUsage", "getMemoryUsage", "getBatteryInfo", "getACAdapterInfo",
    "getBluetoothInfo", "getTemperatureInfo", "getWiFiAutoJoinInfo">>
WindowsDynamicOrder ==
  <<"disk.Partitions", "mem.VirtualMemory", "getBatteryInfo", "getACAdapterInfo",
    "getBluetoothInfo", "getTemperatureInfo", "getInstalledApps", "getRunningApps",
    "host.BootTime">>

\* The log statements of the two collectors that report the error of a
\* sub-collection (darwin dynamic_info.go 428-468, windows dynamic_info.go 52-120).
ErrorMessages(os, fn) ==
  CASE fn = "getDiskUsage" -> {"Error getting disk usage"}
    [] fn = "getMemoryUsage" -> {"Error getting memory usage"}
    [] fn = "getBatteryInfo" -> {"Error getting battery info"}
    [] fn = "getACAdapterInfo" -> {"Error getting AC adapter info"}
    [] fn = "getBluetoothInfo" -> {"Error getting bluetooth info"}
    [] fn = "getTemperatureInfo" -> {"Error getting temperature info"}
    [] fn = "getWiFiAutoJoinInfo" -> {"Error getting WiFi auto join info"}
    [] fn = "disk.Partitions" -> {"Error getting disk partitions"}
    [] fn = "mem.VirtualMemory" -> {"Error getting memory stats"}
    [] OTHER -> {}

\* C2: when a dynamic collector has returned, it has invoked every
\* sub-collection once in the fixed order, the error of each sub-collection
\* that failed is in the log, and the error it returns is nil.
C2_AllInvokedInOrderAndErrorsLogged ==
  pc = "returned" =>
    /\ [k \in 1..Len(calls) |-> calls[k].fn]
         = (IF goos = "darwin" THEN DarwinDynamicOrder ELSE WindowsDynamicOrder)
    /\ \A k \in 1..Len(calls) :
         calls[k].err => ErrorMessages(goos, calls[k].fn) \cap logs # {}
    /\ ~(IF goos = "darwin" THEN GetDynamicSystemInfo_err ELSE GetDynamicInfo_err)

(***************************************************************************)
(* Properties of the renderers (SpecRender)                                *)
(***************************************************************************)
\* C9: rendering the zero-valued report with formatSystemInfo or either
\* printSystemInfo ends without a panic and without a fatal error; no
\* renderer indexes outside a list or divides by zero, whatever the report.
C9_ZeroReportRenders ==
  pc = "rendered" =>
    /\ ~rendering.panic
    /\ info = ZeroInfo => ~rendering.fatal

C9_Witness ==
  /\ pc = "rendered" /\ info = ZeroInfo /\ entry = "printSystemInfo_006"
  /\ args = <<"--json">>
  /\ rendering.lines # << >> /\ ~rendering.panic /\ ~rendering.fatal

(***************************************************************************)
(* Properties of the Windows static collector                              *)
(***************************************************************************)
\* The report fields a query of windows.GetSystemInfo populates are at their
\* zero value.
win_OwnedZero(c, i) ==
  CASE c = "win host.Info" -> i.Hostname = "" /\ i.OS = ""
    [] c = "Win32_ComputerSystem" -> i.ModelID = "" /\ i.Model = ""
    [] c = "Win32_BIOS" -> i.SerialNumber = ""
    [] c = "Win32_Processor" -> i.CPU = Zero("CPUInfo")
    [] c = "Win32_PhysicalMemory" -> i.Memory.Type = ""
    [] c = "win mem.VirtualMemory" -> i.Memory = Zero("MemoryInfo")
    [] c = "Win32_DiskDrive" -> i.Disks = << >>
    [] c = "Win32_ComputerSystemProduct" -> i.UUID = ""
    [] OTHER -> TRUE

\* C11: when windows.GetSystemInfo has returned, every field populated by a
\* query that failed (together with its aliased fallback, where it has one)
\* holds its zero value: empty string, 0, empty list.
C11_FailedQueriesLeaveZero ==
  (goos = "windows" /\ pc = "collected") =>
    \A c \in failed : win_OwnedZero(c, info)

(***************************************************************************)
(* Properties of the collectors called on their own (SpecLib)              *)
(***************************************************************************)
\* The run called a stub of the windows package.
CalledStub == entry # "darwin.GetSystemInfo" /\ goos # "windows"

\* C12: when a static collector has returned, its error is non-nil exactly
\* when it is a non-Windows stub of the windows package, whose report is
\* empty; darwin.GetSystemInfo and the Windows GetSystemInfo return a nil
\* error however many of their sub-collections failed.
C12_ErrorOnlyFromStubs ==
  pc = "collected" =>
    /\ err <=> CalledStub
    /\ CalledStub => info = ZeroInfo

\* Both real collectors returned a nil error with two failed sub-collections,
\* and a stub returned its error.
C12_Witness ==
  /\ pc = "collected" /\ ~err /\ ~CalledStub
  /\ faults = MaxFaults /\ Cardinality(failed) = MaxFaults
  /\ goos = "windows" /\ "Win32_Processor" \in failed

(***************************************************************************)
(* Properties of the probes called on their own (SpecProbe)                *)
(***************************************************************************)
\* The sources of Windows getTemperatureInfo in the order the claim gives.
TierOrder ==
  <<"OpenHardwareMonitor", "Win32_TemperatureSensor", "cpu.Percent", "defaults">>

\* The readings a source yields when it is consulted alone.
TierData(t, in) ==
  CASE t = "OpenHardwareMonitor" ->
         IF in.ohm.err THEN << >> ELSE ohmReadings(in.ohm.lines, 1, FALSE, << >>)
    [] t = "Win32_TemperatureSensor" ->
         IF in.wmi.err THEN << >> ELSE wmiReadings(in.wmi.sensors)
    [] t = "cpu.Percent" ->
         IF in.cpu.err \/ in.cpu.percent = << >> THEN << >>
         ELSE cpuEstimate(in.cpu.percent)
    [] OTHER -> defaultReadings

\* C13: Windows getTemperatureInfo consults its sources in the fixed order
\* vendor report, WMI sensor class, CPU-utilisation estimate, zero defaults;
\* a source is consulted only when every earlier one yielded no reading, and
\* the list returned is exactly the readings of the first source with data.
C13_FirstTierWithDataWins ==
  (entry = "windows.getTemperatureInfo" /\ pc = "probed") =>
    LET n == Len(ret.tiers)
    IN /\ n \in 1..Len(TierOrder)
       /\ ret.tiers = SubSeq(TierOrder, 1, n)
       /\ \A k \in 1..(n - 1) : TierData(TierOrder[k], input) = << >>
       /\ TierData(TierOrder[n], input) # << >>
       /\ ret.tempInfo = TierData(TierOrder[n], input)
       /\ ~ret.err

\* The vendor tool ran but its report held no number and the WMI query
\* failed, so the estimate from 50 % utilisation was returned.
C13_Witness ==
  /\ entry = "windows.getTemperatureInfo" /\ pc = "probed"
  /\ ~input.ohm.err /\ input.ohm.lines # << >> /\ input.wmi.err
  /\ ret.tiers = <<"OpenHardwareMonitor", "Win32_TemperatureSensor", "cpu.Percent">>
  /\ ret.tempInfo[1].Temperature = "60"

\* C14: after macOS getVPNInfo, VPN.IsConnected is true exactly when one of
\* the detections matched in that run: a utun interface, a scutil connection
\* in Connected state, AnyConnect in state Connected, or an openvpn process
\* started with --config.
C14_ConnectedIffHeuristicFired ==
  (entry = "darwin.getVPNInfo" /\ pc = "probed") =>
    (ret.vpn.IsConnected <=> ret.fired # {})

\* The first request of the probe failed: the GET, the read of the body, or
\* the decoding of the body into an address.
FirstRequestFailed(in) ==
  LET r == in.resps[1]
  IN \/ r.getErr
     \/ r.readErr
     \/ IF in.version = "part_002"
        THEN r.status # 200 \/ CountDots(TrimSpace(r.body)) # 3
        ELSE decodeIP(r.body).err

\* C15: the public-IP probe issues exactly one HTTP GET, to one fixed
\* service, and PublicIP is empty whenever that request, the read of its
\* body, or the decoding fails.
C15_OneRequestEmptyOnFailure ==
  (entry = "getPublicIP" /\ pc = "probed") =>
    /\ Len(ret.gets) = 1
    /\ FirstRequestFailed(input) => ret.PublicIP = ""

\* The BatteryStatus code a run of getBatteryInfo read, as a one-element set
\* (empty when it read none).
CodeRead(in, r) ==
  IF r.err THEN {}
  ELSE IF r.path = "wmi" THEN {in.wmi.batteries[1].BatteryStatus}
  ELSE IF Len(in.ps.statusMatches) > 1 THEN {Atoi(in.ps.statusMatches[2])}
  ELSE {}

\* The state name the claim gives for a code.
StatusOf(code) ==
  CASE code = 1 -> "Discharging" [] code = 2 -> "Charging"
    [] code = 3 -> "Fully Charged" [] OTHER -> "Unknown"

\* C16: for every BatteryStatus code read, on the WMI path and on the
\* PowerShell path, getBatteryInfo sets IsCharging exactly when the code is 2
\* and sets Status to Discharging (1), Charging (2), Fully Charged (3) or
\* Unknown (any other code).
C16_StatusCodeMapping ==
  (entry = "windows.getBatteryInfo" /\ pc = "probed") =>
    \A code \in CodeRead(input, ret) :
      /\ ret.battery.IsCharging <=> code = 2
      /\ ret.battery.Status = StatusOf(code)

RECURSIVE ValuesOf(_, _, _)
ValuesOf(lines, k, key) ==
  IF k > Len(lines) THEN << >>
  ELSE (IF lines[k].key = key THEN <<lines[k].value>> ELSE << >>)
       \o ValuesOf(lines, k + 1, key)

\* C18: for any output of the WiFi tool, getWiFiInfo sets WiFi.SSID to the
\* text after `SSID: ` and WiFi.RSSI to the integer after `agrCtlRSSI: `; an
\* output with `SSID: TestNet` and `agrCtlRSSI: -55` yields SSID TestNet and
\* RSSI -55, and a BSSID line never overwrites the SSID.
C18_WiFiParsesSSIDAndRSSI ==
  (entry = "darwin.getWiFiInfo" /\ pc = "probed" /\ ~ret.err) =>
    LET ssids == ValuesOf(input.output.lines, 1, "SSID")
        rssis == ValuesOf(input.output.lines, 1, "agrCtlRSSI")
    IN /\ ssids # << >> => ret.wifi.SSID = ssids[Len(ssids)]
       /\ ssids = << >> => ret.wifi.SSID = ""
       /\ (rssis # << >> /\ AtoiOk(rssis[Len(rssis)]))
            => ret.wifi.RSSI = Atoi(rssis[Len(rssis)])

(***************************************************************************)
(* Properties of the end of main (Spec)                                    *)
(***************************************************************************)
\* C19: on Windows the process exits only from the wait for a line on
\* standard input, in every run, the runs with --save included.
C19_WindowsWaitsBeforeExit ==
  [][(goos = "windows" /\ pc # "exited" /\ pc' = "exited") => pc = "wait"]_vars

\* The positions of main after the aggregator has returned.
AfterReturn == {"collected", "print", "save", "return", "wait", "exited"}

\* What was printed and what was saved, as renderings of the report: the text
\* of printFormattedInfo, the JSON block of printSystemInfo, the saved file.
DerivedFromReport ==
  /\ rendering # NoRendering => rendering = formatSystemInfo(info, goos, build)
  /\ jsonOutput # NoJSON => jsonOutput = MarshalIndent(info)
  /\ file.written => file.body = formatSystemInfo(info, goos, build).lines

\* C20: once the aggregator has returned no field of the report changes, and
\* the text printed and the content written by --save are both renderings of
\* that one report value.
C20_ReportReadOnlyAfterCollection ==
  /\ [](pc \in AfterReturn => DerivedFromReport)
  /\ [][(pc \in AfterReturn) => (info' = info)]_vars

\* A run that collected a report, printed it and saved it.
C20_Witness ==
  /\ pc = "exited" /\ file.written /\ info # ZeroInfo
  /\ \/ rendering = formatSystemInfo(info, goos, build) /\ rendering # NoRendering
     \/ jsonOutput = MarshalIndent(info) /\ jsonOutput # NoJSON

(***************************************************************************)
(* Properties of the order of the macOS collectors (Spec)                  *)
(***************************************************************************)
\* C21: on macOS, when the network plist exists and the WiFi collector of the
\* run found a connected network with a non-empty SSID, the report's
\* WiFiAutoJoin.Networks holds that SSID with AutoJoin true.
C21_AutoJoinSeesCollectedWiFi ==
  (/\ goos = "darwin" /\ pc = "collected"
   /\ info.WiFiAutoJoin.IsConfigured
   /\ info.Network.WiFi.IsConnected /\ info.Network.WiFi.SSID # "") =>
    \E k \in 1..Len(info.WiFiAutoJoin.Networks) :
      info.WiFiAutoJoin.Networks[k] =
        [SSID |-> info.Network.WiFi.SSID, AutoJoin |-> TRUE]

(***************************************************************************)
(* Properties of getIPAndMacAddress (SpecProbe)                            *)
(***************************************************************************)
\* The address lines of kind `kind` in the block of interface n of the input.
AddrOf(n, kind) ==
  { input.blocks[i][j].v : i \in { b \in DOMAIN input.blocks : BlockName(input.blocks[b]) = n },
                           j \in { l \in 1..3 : /\ \E b \in DOMAIN input.blocks :
                                                      /\ BlockName(input.blocks[b]) = n
                                                      /\ l \in DOMAIN input.blocks[b]
                                                      /\ input.blocks[b][l].k = kind } }

\* C22: when the output holds an en0 block with an IPv4 address and a MAC
\* address, the reported IP and MAC are those of en0 whatever blocks precede
\* it; another interface's address is reported only when en0 supplies none.
C22_PrefersEn0 ==
  (entry = "darwin.getIPAndMacAddress" /\ pc = "probed") =>
    /\ (AddrOf("en0", "inet") # {} /\ AddrOf("en0", "ether") # {}) =>
         (ret.IP \in AddrOf("en0", "inet") /\ ret.MacAddress \in AddrOf("en0", "ether"))
    /\ AddrOf("en0", "inet") # {} => ret.IP \in AddrOf("en0", "inet")
    /\ AddrOf("en0", "ether") # {} => ret.MacAddress \in AddrOf("en0", "ether")

(***************************************************************************)
(* Properties of windows.GetAllSystemInfo (SpecAll)                        *)
(***************************************************************************)
\* The fields GetAllSystemInfo takes from neither the network nor the dynamic
\* result; the static fields are among them.
KeptFields == DOMAIN ZeroInfo \ (MergedFields \cup {"Network"})

\* The positions of GetAllSystemInfo after GetSystemInfo has returned.
AfterStatic ==
  {"win_GetNetworkInfo", "win_diskUsage", "win_memoryUsage", "win_getBatteryInfo",
   "win_getACAdapterInfo", "win_getBluetoothInfo", "win_getTemperatureInfo",
   "win_getInstalledApps", "win_getRunningApps", "win_bootTime", "all_merge"}

\* The report GetAllSystemInfo would return from the static result `info` when
\* the collectors named fail with the results n and d.
WithErrors(n, netErr, d, dynErr) ==
  mergeDynamic(mergeNetwork(info, n, netErr), d, dynErr)

\* C23: GetAllSystemInfo keeps every field of the static result outside the
\* nine merged fields and Network, copies exactly the nine fields from the
\* dynamic result, sets Network from the network result, returns a nil error,
\* and leaves a section at its zero value when its collector returns an error.
C23_MergeKeepsStaticCopiesNine ==
  /\ []((entry = "GetAllSystemInfo" /\ pc = "returned" /\ ~err) =>
          /\ info.Network = networkInfo
          /\ \A f \in MergedFields : info[f] = dynamicInfo[f])
  /\ []((entry = "GetAllSystemInfo" /\ pc = "win_GetNetworkInfo") =>
          \A netErr, dynErr \in BOOLEAN :
            LET n == [ZeroNetwork EXCEPT !.IP = "192.168.1.20"]
                d == [ZeroInfo EXCEPT !.UpTime = "3h12m", !.Hostname = "other"]
                r == WithErrors(n, netErr, d, dynErr)
            IN /\ \A f \in KeptFields : r[f] = info[f]
               /\ r.Network = IF netErr THEN ZeroNetwork ELSE n
               /\ \A f \in MergedFields : r[f] = IF dynErr THEN ZeroInfo[f] ELSE d[f])
  /\ [][(entry = "GetAllSystemInfo" /\ pc \in AfterStatic) =>
          (\A f \in KeptFields : info'[f] = info[f])]_vars

\* GetAllSystemInfo returned a report with static, network and dynamic parts.
C23_Witness ==
  /\ entry = "GetAllSystemInfo" /\ pc = "returned" /\ ~err
  /\ info.Hostname # "" /\ info.Network.IP # "" /\ info.UpTime # ""
  /\ info.Network = networkInfo /\ info.UpTime = dynamicInfo.UpTime

(***************************************************************************)
(* Properties of the queries of the Windows static collector (Spec)        *)
(***************************************************************************)
\* The positions in `calls` of the queries of class fn.
QueriesOf(fn) == { k \in DOMAIN calls : calls[k].fn = fn }

\* C24: an aliased query is issued only right after the primary query of its
\* class failed (for the processor: failed or returned no row), and the disk
\* list is filled from at most one of the two Win32_DiskDrive queries, so that
\* no disk is listed twice.
C24_FallbackOnlyAfterPrimaryFailed ==
  goos = "windows" =>
    /\ \A k \in QueriesOf("Win32_Processor aliased") :
         /\ k > 1 /\ calls[k - 1].fn = "Win32_Processor"
         /\ calls[k - 1].err \/ calls[k - 1].rows = 0
    /\ \A k \in QueriesOf("Win32_DiskDrive aliased") :
         k > 1 /\ calls[k - 1].fn = "Win32_DiskDrive" /\ calls[k - 1].err
    /\ \A c \in {"Win32_Processor", "Win32_DiskDrive"} :
         /\ Cardinality(QueriesOf(c)) <= 1
         /\ \A k \in QueriesOf(c) : \A a \in QueriesOf(c \o " aliased") : k < a
    /\ \A i, j \in DOMAIN info.Disks : info.Disks[i] = info.Disks[j] => i = j
    /\ pc = "win_uuid" =>
         \E k \in QueriesOf("Win32_DiskDrive") \cup QueriesOf("Win32_DiskDrive aliased") :
           /\ Len(info.Disks) \in {0, calls[k].rows}
           /\ \A o \in (QueriesOf("Win32_DiskDrive") \cup QueriesOf("Win32_DiskDrive aliased")) \ {k} :
                calls[o].err

\* A run in which both aliased queries were issued and the aliased disk query
\* filled the list.
C24_Witness ==
  /\ goos = "windows" /\ pc = "collected"
  /\ QueriesOf("Win32_Processor aliased") # {}
  /\ QueriesOf("Win32_DiskDrive aliased") # {}
  /\ Len(info.Disks) = 1

(***************************************************************************)
(* Properties of the macOS interface list (Spec)                           *)
(***************************************************************************)
\* C25: after macOS GetNetworkInfo, Network.Interfaces holds at most one entry
\* per interface name, and the byte counters getNetworkTraffic read for an
\* interface are in every entry of that interface.
C25_OneEntryPerInterface ==
  (goos = "darwin" /\ build = "main.go" /\ pc = "collected") =>
    LET ifaces == info.Network.Interfaces
    IN /\ \A i, j \in DOMAIN ifaces : ifaces[i].Name = ifaces[j].Name => i = j
       /\ \A i, j \in DOMAIN ifaces :
            ifaces[i].Name = ifaces[j].Name =>
              (ifaces[i].InBytes = ifaces[j].InBytes /\ ifaces[i].OutBytes = ifaces[j].OutBytes)

(***************************************************************************)
(* Properties of the disk capacity line of part_006 (SpecProbe)            *)
(***************************************************************************)
\* The largest size of the disks given, in GB.
LargestGB ==
  CHOOSE s \in { input.disks[k].Size : k \in DOMAIN input.disks } :
    \A k \in DOMAIN input.disks : input.disks[k].Size <= s

\* C26: for a list of disks with sizes in GB, printSystemInfo shows as disk
\* capacity the size of the largest disk, a disk of 1000 GB or more included.
C26_ShowsLargestDisk ==
  (/\ entry = "printSystemInfo_006" /\ pc = "probed"
   /\ input.disks # << >> /\ \A k \in DOMAIN input.disks : input.disks[k].Size > 0) =>
    \E l \in DOMAIN ret.lines :
      ret.lines[l] = Line("disk-capacity", "", "", 100 * LargestGB)

(***************************************************************************)
(* Properties of getNetworkLatency of part_004 (SpecProbe)                 *)
(***************************************************************************)
\* The targets, in order, whose ping succeeded and gave a summary line.
RECURSIVE Answered(_)
Answered(k) ==
  IF k > 3 THEN << >>
  ELSE (IF ~input.pings[k].err /\ Len(input.pings[k].summary) = 4
        THEN <<latencyTargets[k].Host>> ELSE << >>) \o Answered(k + 1)

\* C27: getNetworkLatency pings 8.8.8.8, 1.1.1.1 and www.baidu.com in that
\* order whatever fails; Latency.Targets holds one entry, in that order, for
\* each target whose ping succeeded and whose summary line parsed; and
\* NetworkHops is non-empty only when mtr succeeded.
C27_TargetsInOrderFailuresSkipped ==
  (entry = "darwin.getNetworkLatency" /\ pc = "probed") =>
    /\ ret.pinged = <<"8.8.8.8", "1.1.1.1", "www.baidu.com">>
    /\ [k \in DOMAIN ret.Latency.Targets |-> ret.Latency.Targets[k].TargetHost]
         = Answered(1)
    /\ ret.Latency.NetworkHops # << >> => ~input.mtr.err
    /\ ~ret.err

\* The first ping failed, the later ones answered, and mtr gave hops.
C27_Witness ==
  /\ entry = "darwin.getNetworkLatency" /\ pc = "probed"
  /\ input.pings[1].err
  /\ Len(ret.Latency.Targets) = 2
  /\ ret.Latency.Targets[1].TargetHost = "1.1.1.1"
  /\ ret.Latency.Targets[2].TargetHost = "www.baidu.com"
  /\ Len(ret.Latency.NetworkHops) = 2

(***************************************************************************)
(* Properties of the command-line flags (Spec)                             *)
(***************************************************************************)
\* The JSON dump was printed.
PrintedJSON == \E k \in DOMAIN stdout : stdout[k] = "JSON"

C29_RateNeverNegativeNorWrapped ==
  (entry = "getNetworkTraffic after a counter reset" /\ pc = "probed") =>
    /\ ret.rate.wrap = 0
    /\ ret.rate.v >= 0

(***************************************************************************)
(* Properties of the loops over maps (SpecProbe)                           *)
(***************************************************************************)
\* C30: collection is deterministic in its inputs: every run on the same
\* outputs of the commands builds the same report, the order of
\* Network.Interfaces and Traffic.ProcessTraffic, the PHY mode of a radio
\* type and the marketing model name included.
C30_SameInputsSameReport ==
  (entry = "range over a map" /\ pc = "probed") =>
    \A other \in Collected(input) : other = ret

====
